---- MODULE Spec2Model ----
(***************************************************************************)
(* FinTrack, 07_AI_categorisation: the iterative categorisation pipeline.  *)
(*                                                                         *)
(* main_categorization.py drives rounds of three subprocesses              *)
(*   scripts/GenCat.py                  (Classifier Adapter)               *)
(*   scripts/clean_ai_categorisation.py (Cleaner)                          *)
(*   scripts/gen_cat_eval.py            (Evaluator)                        *)
(* over the files of the outputs directory and merges the per-round files  *)
(* when the loop ends.                                                     *)
(*                                                                         *)
(* Strings whose content the code inspects (keywords, category names,      *)
(* transaction fields) are sequences of one-character strings, so that     *)
(* strip(), lower(), the substring test and the lexicographic sort are     *)
(* computed.  JSON lists are sequences, JSON objects are records, a dict   *)
(* is the sequence of its items in insertion order.                        *)
(***************************************************************************)
EXTENDS Integers, Sequences, FiniteSets, TLC

VARIABLES
    pc,             \* position of main(): "start","attempt","clean","eval","check","merge","done"
    iteration,      \* main(): iteration
    previous_count, \* main(): previous_count (None is modelled by NoneCount)
    gen_cat_input,  \* main(): gen_cat_input, the file the round reads its batch from
    files,          \* the inputs/ and outputs/ directories: file name -> content
    status,         \* the terminal state main() has reported, "Running" before
    attempt,        \* GenCat.main(): attempt, 0 before the first call
    batch,          \* GenCat.main(): transactions, the batch embedded in full_prompt
    response,       \* GenCat.main(): response, what the last call returned
    log,            \* one record per started round: what each stage read, how it
                    \* exited, what the Evaluator wrote and the count main() loaded
    mergeRuns,      \* how many times the merge block of main() has run
    refineLocals    \* refine_other_loop.refine(): its arguments and locals while a
                    \* call is under way, and what it returned

vars == <<pc, iteration, previous_count, gen_cat_input, files, status,
          attempt, batch, response, log, mergeRuns, refineLocals>>

(***************************************************************************)
(* Program constants                                                       *)
(***************************************************************************)
MAX_ITERATIONS == 5
MAX_ATTEMPTS == 3
NoneCount == 0 - 1          \* previous_count = None
NoneConfidence == 0 - 1     \* kw_obj.get("confidence", None) = None
NoRefine == [i |-> 0 - 1]   \* refine() has not been called

(***************************************************************************)
(* Bounds of the model                                                     *)
(***************************************************************************)
NumTx == 5          \* transactions in inputs/transactions.json
MaxAssignments == 3 \* (category, keyword) assignments in a raw categorisation
                    \* given to the Cleaner; an entry without keywords counts as one
MaxMergeRounds == 2 \* rounds whose files the merges find in outputs/
MaxEvalTx == 2      \* transactions in the list the Evaluator is run on
MaxEvalKeywords == 2 \* (category, keyword) assignments the Evaluator is run on
MaxStageKeywords == 2 \* (category, keyword object) assignments of a response cleaned and evaluated
MaxConflicts == 3   \* transactions whose sender a response may give to two categories
MaxRefineTx == 3    \* transactions in the list refine() is called on

(***************************************************************************)
(* Strings                                                                 *)
(***************************************************************************)
UpperChars == <<"A","B","C","D","E","F","G","H","I","J","K","L","M",
                "N","O","P","Q","R","S","T","U","V","W","X","Y","Z">>
LowerChars == <<"a","b","c","d","e","f","g","h","i","j","k","l","m",
                "n","o","p","q","r","s","t","u","v","w","x","y","z">>

IsUpper(c) == \E i \in 1..26 : UpperChars[i] = c
Index(tbl, c) == CHOOSE i \in 1..26 : tbl[i] = c

Digits == <<"0","1","2","3","4","5","6","7","8","9">>
IsDigit(c) == \E i \in 1..10 : Digits[i] = c

\* code point of a character: space 32, '.' 46, 0-9 48.., A-Z 65.., '_' 95, a-z 97..
Ord(c) == IF c = " " THEN 32
          ELSE IF c = "." THEN 46
          ELSE IF IsDigit(c) THEN 47 + (CHOOSE i \in 1..10 : Digits[i] = c)
          ELSE IF IsUpper(c) THEN 64 + Index(UpperChars, c)
          ELSE IF c = "_" THEN 95
          ELSE 96 + Index(LowerChars, c)

LowerChar(c) == IF IsUpper(c) THEN LowerChars[Index(UpperChars, c)] ELSE c

\* str.lower()
Lower(s) == [i \in 1..Len(s) |-> LowerChar(s[i])]

RECURSIVE LStrip(_)
LStrip(s) == IF s # <<>> /\ Head(s) = " " THEN LStrip(Tail(s)) ELSE s

RECURSIVE RStrip(_)
RStrip(s) == IF s # <<>> /\ s[Len(s)] = " " THEN RStrip(SubSeq(s, 1, Len(s) - 1)) ELSE s

\* str.strip()
Strip(s) == RStrip(LStrip(s))

\* the first index from i on at which a and b differ or one of them has ended
RECURSIVE Mismatch(_, _, _)
Mismatch(a, b, i) ==
    IF i > Len(a) \/ i > Len(b) \/ a[i] # b[i] THEN i ELSE Mismatch(a, b, i + 1)

\* a < b for Python str: lexicographic by code point, a proper prefix is smaller
StrLess(a, b) ==
    LET i == Mismatch(a, b, 1)
    IN  IF i > Len(b) THEN FALSE
        ELSE IF i > Len(a) THEN TRUE
        ELSE Ord(a[i]) < Ord(b[i])

\* kw in text
IsSubstring(kw, text) ==
    \E i \in 0..(Len(text) - Len(kw)) : SubSeq(text, i + 1, i + Len(kw)) = kw

\* dict.get(key, default)
Get(obj, key, default) == IF key \in DOMAIN obj THEN obj[key] ELSE default

\* sorted(strings): insertion sort, an equal element goes after the ones present
RECURSIVE InsertString(_, _)
InsertString(x, s) ==
    IF s = <<>> THEN <<x>>
    ELSE IF StrLess(x, Head(s)) THEN <<x>> \o s
    ELSE <<Head(s)>> \o InsertString(x, Tail(s))

RECURSIVE SortedStrings(_)
SortedStrings(s) ==
    IF s = <<>> THEN <<>>
    ELSE InsertString(s[Len(s)], SortedStrings(SubSeq(s, 1, Len(s) - 1)))

\* sorted(objs, key=lambda x: x[key]) : stable
RECURSIVE InsertByKey(_, _, _)
InsertByKey(x, s, key) ==
    IF s = <<>> THEN <<x>>
    ELSE IF StrLess(x[key], Head(s)[key]) THEN <<x>> \o s
    ELSE <<Head(s)>> \o InsertByKey(x, Tail(s), key)

RECURSIVE SortedByKey(_, _)
SortedByKey(s, key) ==
    IF s = <<>> THEN <<>>
    ELSE InsertByKey(s[Len(s)], SortedByKey(SubSeq(s, 1, Len(s) - 1), key), key)

Other == <<"O","t","h","e","r">>

(***************************************************************************)
(* Cleaner: scripts/clean_ai_categorisation.py                             *)
(***************************************************************************)
\* the dict keyed on the keyword as received, not on kw_clean
AssignmentRawKey(cat, kw_obj) ==
    [kw |-> Get(kw_obj, "keyword", <<>>),
     Category |-> cat,
     Entry |-> [keyword |-> Strip(Get(kw_obj, "keyword", <<>>)),
                reasoning |-> Get(kw_obj, "reasoning", ""),
                confidence |-> Get(kw_obj, "confidence", NoneConfidence)]]

\* the value stored in keyword_to_category[kw_clean]; kw is the dict key
Assignment(cat, kw_obj) ==
    [kw |-> Strip(Get(kw_obj, "keyword", <<>>)),
     Category |-> cat,
     Entry |-> [keyword |-> Strip(Get(kw_obj, "keyword", <<>>)),
                reasoning |-> Get(kw_obj, "reasoning", ""),
                confidence |-> Get(kw_obj, "confidence", NoneConfidence)]]

\* no preference for non-'Other': the first assignment is always kept
EvictsNever(held, cat) == FALSE

\* a later assignment replaces the one held when the held one is under 'Other'
Evicts(held, cat) == held.Category = Other /\ cat # Other

\* the membership test made on the keyword as received, not on kw_clean
CleanStepRawTest(ktc, cat, kw_obj) ==
    LET new == Assignment(cat, kw_obj)
        kw == Get(kw_obj, "keyword", <<>>)
    IN  IF \E i \in 1..Len(ktc) : ktc[i].kw = kw
        THEN LET i == CHOOSE j \in 1..Len(ktc) : ktc[j].kw = kw
             IN  IF Evicts(ktc[i], cat) THEN [ktc EXCEPT ![i] = new] ELSE ktc
        ELSE Append(ktc, new)

\* one pass of the inner loop body: ktc is keyword_to_category
CleanStep(ktc, cat, kw_obj) ==
    LET new == Assignment(cat, kw_obj)
    IN  IF \E i \in 1..Len(ktc) : ktc[i].kw = new.kw
        THEN LET i == CHOOSE j \in 1..Len(ktc) : ktc[j].kw = new.kw
             IN  IF Evicts(ktc[i], cat) THEN [ktc EXCEPT ![i] = new] ELSE ktc
        ELSE Append(ktc, new)

RECURSIVE CleanKeywords(_, _, _)
CleanKeywords(ktc, cat, kws) ==
    IF kws = <<>> THEN ktc
    ELSE CleanKeywords(CleanStep(ktc, cat, Head(kws)), cat, Tail(kws))

\* the loop over data: returns keyword_to_category
RECURSIVE CleanEntries(_, _)
CleanEntries(ktc, data) ==
    IF data = <<>> THEN ktc
    ELSE CleanEntries(
            CleanKeywords(ktc, Strip(Get(Head(data), "Category", <<>>)),
                          Get(Head(data), "Keywords", <<>>)),
            Tail(data))

\* category_keywords[cat]: the entries of cat in the order of keyword_to_category
RECURSIVE EntriesOf(_, _)
EntriesOf(ktc, cat) ==
    IF ktc = <<>> THEN <<>>
    ELSE (IF Head(ktc).Category = cat THEN <<Head(ktc).Entry>> ELSE <<>>)
         \o EntriesOf(Tail(ktc), cat)

\* the keys of category_keywords, in insertion order
RECURSIVE CategoryKeys(_)
CategoryKeys(ktc) ==
    IF ktc = <<>> THEN <<>>
    ELSE LET rest == CategoryKeys(SubSeq(ktc, 1, Len(ktc) - 1))
             cat == ktc[Len(ktc)].Category
         IN  IF \E i \in 1..Len(rest) : rest[i] = cat THEN rest ELSE Append(rest, cat)

\* the categories in the order of their first keyword, not sorted
CleanedUnsorted(ktc) ==
    LET cats == CategoryKeys(ktc)
    IN  [i \in 1..Len(cats) |->
            [Category |-> cats[i],
             Keywords |-> SortedByKey(EntriesOf(ktc, cats[i]), "keyword")]]

\* the list written to output_path
Cleaned(ktc) ==
    LET cats == SortedStrings(CategoryKeys(ktc))
    IN  [i \in 1..Len(cats) |->
            [Category |-> cats[i],
             Keywords |-> SortedByKey(EntriesOf(ktc, cats[i]), "keyword")]]

clean_ai_categorisation(data) == Cleaned(CleanEntries(<<>>, data))

(***************************************************************************)
(* Evaluator: scripts/gen_cat_eval.py                                      *)
(***************************************************************************)
\* f"{sender_receiver} {booking_text} {purpose}".lower()
TxText(tx) ==
    Lower(Get(tx, "sender_receiver", <<>>) \o <<" ">> \o
          Get(tx, "booking_text", <<>>) \o <<" ">> \o
          Get(tx, "purpose", <<>>))

\* position of key k in a dict kept as a sequence of items, 0 when absent
Find(dict, k) ==
    IF \E i \in 1..Len(dict) : dict[i].key = k
    THEN CHOOSE i \in 1..Len(dict) : dict[i].key = k
    ELSE 0

\* dict[k] = dict.get(k, empty) | add : a set-valued dict, insertion order kept
AddTo(dict, k, add) ==
    IF Find(dict, k) = 0 THEN Append(dict, [key |-> k, val |-> add])
    ELSE [dict EXCEPT ![Find(dict, k)].val = @ \cup add]

\* dict[k] = v
Put(dict, k, v) ==
    IF Find(dict, k) = 0 THEN Append(dict, [key |-> k, val |-> v])
    ELSE [dict EXCEPT ![Find(dict, k)].val = v]

\* category_to_keywords[cat].add(kw_l) moved into the else branch: it runs
\* only for a keyword that is new to keyword_to_category
MapStepElse(m, cat, kw_obj) ==
    LET kw_l == Lower(Strip(Get(kw_obj, "keyword", <<>>)))
        confidence == Get(kw_obj, "confidence", NoneConfidence)
    IN  [keyword_to_category |-> AddTo(m.keyword_to_category, kw_l, {cat}),
         category_to_keywords |->
            IF Find(m.keyword_to_category, kw_l) = 0
            THEN AddTo(m.category_to_keywords, cat, {kw_l})
            ELSE m.category_to_keywords,
         all_keywords |-> Append(m.all_keywords, kw_l),
         keyword_confidence |->
            IF confidence # NoneConfidence
            THEN Put(m.keyword_confidence, kw_l, confidence)
            ELSE m.keyword_confidence]

\* the body of the inner loop of build_keyword_mappings; m holds the four results
MapStep(m, cat, kw_obj) ==
    LET kw_l == Lower(Strip(Get(kw_obj, "keyword", <<>>)))
        confidence == Get(kw_obj, "confidence", NoneConfidence)
    IN  [keyword_to_category |-> AddTo(m.keyword_to_category, kw_l, {cat}),
         category_to_keywords |-> AddTo(m.category_to_keywords, cat, {kw_l}),
         all_keywords |-> Append(m.all_keywords, kw_l),
         keyword_confidence |->
            IF confidence # NoneConfidence
            THEN Put(m.keyword_confidence, kw_l, confidence)
            ELSE m.keyword_confidence]

RECURSIVE MapKeywords(_, _, _)
MapKeywords(m, cat, kws) ==
    IF kws = <<>> THEN m
    ELSE MapKeywords(MapStep(m, cat, Head(kws)), cat, Tail(kws))

RECURSIVE MapEntries(_, _)
MapEntries(m, data) ==
    IF data = <<>> THEN m
    ELSE MapEntries(
            MapKeywords(m, Lower(Strip(Get(Head(data), "Category", <<>>))),
                        Get(Head(data), "Keywords", <<>>)),
            Tail(data))

build_keyword_mappings(ai_categories) ==
    MapEntries([keyword_to_category |-> <<>>, category_to_keywords |-> <<>>,
                all_keywords |-> <<>>, keyword_confidence |-> <<>>],
               ai_categories)

\* the test without its first conjunct: kw in text
HitsEmpty(kw, text) == IsSubstring(kw, text)

\* kw and kw in text
Hits(kw, text) == kw # <<>> /\ IsSubstring(kw, text)

\* the break placed after the if instead of inside it: only the first
\* keyword of the index is tried
FirstHitFirstOnly(ktc, text) ==
    IF ktc # <<>> /\ Hits(ktc[1].key, text) THEN 1 ELSE 0

\* index of the first item of keyword_to_category that hits text, 0 when none
FirstHit(ktc, text) ==
    IF \E i \in 1..Len(ktc) : Hits(ktc[i].key, text)
    THEN CHOOSE i \in 1..Len(ktc) :
            Hits(ktc[i].key, text) /\ \A j \in 1..(i - 1) : ~Hits(ktc[j].key, text)
    ELSE 0

\* the loop without its break, keeping the categories of the last keyword
\* that hits
MatchedCatsLast(ktc, text) ==
    ktc[CHOOSE i \in 1..Len(ktc) :
            Hits(ktc[i].key, text)
            /\ \A j \in (i + 1)..Len(ktc) : ~Hits(ktc[j].key, text)].val

\* cats at the break: the categories of the first keyword that hits text
MatchedCats(ktc, text) == ktc[FirstHit(ktc, text)].val

\* matched_categories holds one category set per matched transaction (the code
\* extends a flat list by list(cats), whose order within one set is arbitrary)
RECURSIVE match_transactions(_, _)
match_transactions(transactions, ktc) ==
    IF transactions = <<>> THEN [matched_categories |-> <<>>, unmatched |-> <<>>]
    ELSE LET tx == Head(transactions)
             hit == FirstHit(ktc, TxText(tx))
             rest == match_transactions(Tail(transactions), ktc)
         IN  IF hit # 0
             THEN [rest EXCEPT !.matched_categories = <<MatchedCats(ktc, TxText(tx))>> \o @]
             ELSE [rest EXCEPT !.unmatched = <<tx>> \o @]

find_duplicate_keywords(ktc) ==
    SelectSeq(ktc, LAMBDA item : Cardinality(item.val) > 1)

\* the scan stopped at the first keyword that hits text, as the matcher does
AllCatsFirstHit(ktc, text) == ktc[FirstHit(ktc, text)].val

\* the union of the category sets of every keyword that hits text
AllCats(ktc, text) ==
    UNION {ktc[i].val : i \in {j \in 1..Len(ktc) : Hits(ktc[j].key, text)}}

\* tx_to_category after the loop over the transactions, insertion order kept
RECURSIVE TxToCategory(_, _, _)
TxToCategory(t2c, transactions, ktc) ==
    IF transactions = <<>> THEN t2c
    ELSE LET text == TxText(Head(transactions))
         IN  TxToCategory(
                IF \E i \in 1..Len(ktc) : Hits(ktc[i].key, text)
                THEN AddTo(t2c, text, AllCats(ktc, text))
                ELSE t2c,
                Tail(transactions), ktc)

check_category_consistency(transactions, ktc) ==
    SelectSeq(TxToCategory(<<>>, transactions, ktc),
              LAMBDA item : Cardinality(item.val) > 1)

\* desired_categories of find_missing_categories, as written in the source
desired_categories ==
    {<<"h","a","u","s","h","o","l","d">>,  \* haushold
     <<"e","l","e","c","t","r","i","c","i","t","y">>,  \* electricity
     <<"m","a","i","n","t","e","n","a","n","c","e">>,  \* maintenance
     <<"r","e","n","t">>,  \* rent
     <<"s","a","l","a","r","y">>,  \* salary
     <<"b","a","n","k"," ","l","o","a","n">>,  \* bank loan
     <<"t","a","x","e","s"," ","a","n","d"," ","f","e","e","s">>,  \* taxes and fees
     <<"i","n","s","u","r","a","n","c","e">>,  \* insurance
     <<"l","e","i","s","u","r","e">>,  \* leisure
     <<"c","r","e","d","i","t","c","a","r","d">>,  \* creditcard
     <<"m","e","d","i","c","i","n","e">>,  \* medicine
     <<"s","p","o","r","t">>,  \* sport
     <<"c","l","o","t","h","i","n","g">>,  \* clothing
     <<"a","t","m">>,  \* atm
     <<"o","t","h","e","r">>,  \* other
     <<"t","r","a","n","s","p","o","r","t","a","t","i","o","n">>}  \* transportation

\* desired_categories - set(category_to_keywords.keys())
find_missing_categories(category_to_keywords) ==
    desired_categories \
        {category_to_keywords[i].key : i \in 1..Len(category_to_keywords)}

(***************************************************************************)
(* Files.  A name is the file's base name; a content is                    *)
(*   kind "absent"     no such file                                        *)
(*   kind "malformed"  text that json.load rejects; text identifies it     *)
(*   kind "object"     valid JSON whose top level is a non-empty object    *)
(*   kind "list"       valid JSON list, v its elements                     *)
(*   kind "prompt"     the rendered prompt, v the batch it embeds          *)
(*   kind "png"        the histogram, v the confidences it was drawn from  *)
(***************************************************************************)
Absent == [kind |-> "absent", text |-> "", v |-> <<>>]
Pending == [kind |-> "pending", text |-> "", v |-> <<>>]
JsonList(v) == [kind |-> "list", text |-> "", v |-> v]
MalformedText(t) == [kind |-> "malformed", text |-> t, v |-> <<>>]
JsonObject(t) == [kind |-> "object", text |-> t, v |-> <<>>]

\* A file is named by its directory, its stem and its round index (0: none);
\* BaseName gives the characters of the name, which the glob patterns and the
\* sort of the matched paths inspect.
DotJson == <<".","j","s","o","n">>
StemChars(stem) ==
    CASE stem = "AI_Categorisation" ->
            <<"A","I","_","C","a","t","e","g","o","r","i","s","a","t","i","o","n">>
      [] stem = "AI_Categorisation_cleaned" ->
            <<"A","I","_","C","a","t","e","g","o","r","i","s","a","t","i","o","n",
              "_","c","l","e","a","n","e","d">>
      [] stem = "uncategorized_transactions" ->
            <<"u","n","c","a","t","e","g","o","r","i","z","e","d","_",
              "t","r","a","n","s","a","c","t","i","o","n","s">>
      [] stem = "inconsistent_categorizations" ->
            <<"i","n","c","o","n","s","i","s","t","e","n","t","_",
              "c","a","t","e","g","o","r","i","z","a","t","i","o","n","s">>
Stems == {"AI_Categorisation", "AI_Categorisation_cleaned",
          "uncategorized_transactions", "inconsistent_categorizations"}

\* os.path.join(OUTPUTS_DIR, f"{stem}_{iteration}.json")
RoundFile(stem, k) == <<"outputs", stem, k>>
\* os.path.join(OUTPUTS_DIR, f"{stem}.json")
MergedFile(stem) == <<"outputs", stem, 0>>
TransactionsFile == <<"inputs", "transactions", 0>>
LogPromptFile == <<"inputs", "log_prompt", 0>>
HistogramFile == <<"outputs", "confidence_histogram.png", 0>>

\* the base name of a .json file of outputs/
BaseName(f) ==
    StemChars(f[2]) \o (IF f[3] = 0 THEN <<>> ELSE <<"_", Digits[f[3] + 1]>>) \o DotJson

FileNames ==
    {RoundFile(stem, k) : stem \in Stems, k \in 1..MAX_ITERATIONS}
    \cup {MergedFile(stem) : stem \in Stems}
    \cup {TransactionsFile, LogPromptFile, HistogramFile}

\* the path without the iteration: one raw file shared by all rounds
cat_path_shared(k) == RoundFile("AI_Categorisation", 1)
cat_path(k) == RoundFile("AI_Categorisation", k)
cleaned_cat_path(k) == RoundFile("AI_Categorisation_cleaned", k)
uncategorized_path(k) == RoundFile("uncategorized_transactions", k)
inconsistent_path(k) == RoundFile("inconsistent_categorizations", k)

(***************************************************************************)
(* The external capability and the transactions of a run                   *)
(***************************************************************************)
\* transaction i: sender "A".."E", booking text "x"; its text is "a x ", ...
Transaction(i) ==
    [sender_receiver |-> <<UpperChars[i]>>, booking_text |-> <<"x">>, purpose |-> <<>>]
AllTransactions == [i \in 1..NumTx |-> Transaction(i)]

Rent == <<"R","e","n","t">>
Leisure == <<"L","e","i","s","u","r","e">>

KeywordEntry(kw, reasoning, confidence) ==
    [keyword |-> kw, reasoning |-> reasoning, confidence |-> confidence]
GenAICat(category, keywords) == [Category |-> category, Keywords |-> keywords]

\* what generate_content may return as response.text
ValidResponses ==
    {JsonList(<<GenAICat(Rent, <<KeywordEntry(<<LowerChars[i]>>, "r1", 90)>>)>>) : i \in 1..NumTx}
    \cup {JsonList(<<>>),
          JsonList(<<GenAICat(Leisure, <<KeywordEntry(<<" ", "A">>, "r1", 90)>>),
                     GenAICat(Rent, <<KeywordEntry(<<"x">>, "r2", 50)>>)>>),
          JsonObject("error")}
\* a keyword given to Leisure in lower case and to Rent in upper case: the
\* Cleaner keeps both and the Evaluator's index maps the keyword to both
ConflictingResponses ==
    {JsonList(<<GenAICat(Leisure, <<KeywordEntry(<<LowerChars[i]>>, "r1", 90)>>),
                GenAICat(Rent, <<KeywordEntry(<<UpperChars[i]>>, "r2", 50)>>)>>) :
        i \in 1..MaxConflicts}
MalformedResponses == {MalformedText("m1"), MalformedText("m2")}
Responses == ValidResponses \cup MalformedResponses
NoResponse == [kind |-> "none", text |-> "", v |-> <<>>]

\* json.loads(text) succeeds
\* every response text accepted
is_valid_json_lenient(text) == TRUE

is_valid_json(text) == text.kind # "malformed"

(***************************************************************************)
(* Cross-round merge: main_categorization.py                               *)
(***************************************************************************)
\* fnmatch(name, prefix + "*" + suffix)
GlobMatch(name, prefix, suffix) ==
    /\ Len(name) >= Len(prefix) + Len(suffix)
    /\ SubSeq(name, 1, Len(prefix)) = prefix
    /\ SubSeq(name, Len(name) - Len(suffix) + 1, Len(name)) = suffix

\* sorted(paths): the paths are distinct, p is [name, file]
RECURSIVE InsertPath(_, _)
InsertPath(p, s) ==
    IF s = <<>> THEN <<p>>
    ELSE IF StrLess(p.name, Head(s).name) THEN <<p>> \o s
    ELSE <<Head(s)>> \o InsertPath(p, Tail(s))

RECURSIVE SortedPaths(_)
SortedPaths(S) ==
    IF S = {} THEN <<>>
    ELSE LET f == CHOOSE g \in S : TRUE
         IN  InsertPath([name |-> BaseName(f), file |-> f], SortedPaths(S \ {f}))

\* sorted(glob.glob(os.path.join(OUTPUTS_DIR, f"{stem}_*.json")))
SortedGlob(fs, stem) ==
    LET sorted == SortedPaths({f \in DOMAIN fs :
                    /\ f[1] = "outputs"
                    /\ f[2] \in Stems
                    /\ fs[f].kind # "absent"
                    /\ GlobMatch(BaseName(f), StemChars(stem) \o <<"_">>, DotJson)})
    IN  [i \in 1..Len(sorted) |-> sorted[i].file]

\* the entries merge_json_files iterates for one file; a file that does not
\* parse raises inside the try and contributes nothing
EntriesOfFile(content) ==
    IF content.kind = "list" THEN content.v
    ELSE IF content.kind = "object" THEN <<[object |-> content.text]>>
    ELSE <<>>

\* no entry counts as seen
SeenNever(merged, entry) == FALSE

\* unique in seen, with key=None: an entry with the same
\* json.dumps(entry, sort_keys=True) has been merged
Seen(merged, entry) == \E i \in 1..Len(merged) : merged[i] = entry

\* the inner loop of merge_json_files: an entry is kept unless it was seen
RECURSIVE MergeEntries(_, _)
MergeEntries(merged, entries) ==
    IF entries = <<>> THEN merged
    ELSE MergeEntries(
            IF Seen(merged, Head(entries))
            THEN merged ELSE Append(merged, Head(entries)),
            Tail(entries))

RECURSIVE MergeFiles(_, _, _)
MergeFiles(merged, fs, fnames) ==
    IF fnames = <<>> THEN merged
    ELSE MergeFiles(MergeEntries(merged, EntriesOfFile(fs[Head(fnames)])), fs, Tail(fnames))

\* merged and seen emptied at the head of the loop over the files: the
\* entries of the last file only
merge_json_files_last(fs, stem) ==
    LET fnames == SortedGlob(fs, stem)
    IN  MergeFiles(<<>>, fs, IF fnames = <<>> THEN <<>> ELSE <<fnames[Len(fnames)]>>)

merge_json_files(fs, stem) == MergeFiles(<<>>, fs, SortedGlob(fs, stem))

\* save_merged(pattern, outname)
save_merged(fs, stem) ==
    [fs EXCEPT ![MergedFile(stem)] = JsonList(merge_json_files(fs, stem))]

\* merged[cat] extended by the keyword objects whose keyword is not yet in it
RECURSIVE AddUnique(_, _)
AddUnique(held, keywords) ==
    IF keywords = <<>> THEN held
    ELSE AddUnique(
            IF /\ "keyword" \in DOMAIN Head(keywords)
               /\ ~\E i \in 1..Len(held) : held[i].keyword = Head(keywords).keyword
            THEN Append(held, Head(keywords)) ELSE held,
            Tail(keywords))

\* the loop over the entries of one file of merge_category_json_files
RECURSIVE MergeCategoryEntries(_, _)
MergeCategoryEntries(merged, data) ==
    IF data = <<>> THEN merged
    ELSE LET cat == Get(Head(data), "Category", <<>>)
             keywords == Get(Head(data), "Keywords", <<>>)
             at == Find(merged, cat)
         IN  MergeCategoryEntries(
                IF cat = <<>> THEN merged
                ELSE IF at = 0
                     THEN Append(merged, [key |-> cat, val |-> AddUnique(<<>>, keywords)])
                     ELSE [merged EXCEPT ![at].val = AddUnique(@, keywords)],
                Tail(data))

\* a file that is not a list of objects raises inside the try before any
\* entry is merged
RECURSIVE MergeCategoryFiles(_, _, _)
MergeCategoryFiles(merged, fs, fnames) ==
    IF fnames = <<>> THEN merged
    ELSE MergeCategoryFiles(
            IF fs[Head(fnames)].kind = "list"
            THEN MergeCategoryEntries(merged, fs[Head(fnames)].v) ELSE merged,
            fs, Tail(fnames))

merge_category_json_files(fs, stem) ==
    LET merged == MergeCategoryFiles(<<>>, fs, SortedGlob(fs, stem))
        cats == SortedStrings([i \in 1..Len(merged) |-> merged[i].key])
    IN  [i \in 1..Len(cats) |->
            [Category |-> cats[i],
             Keywords |-> SortedByKey(merged[Find(merged, cats[i])].val, "keyword")]]

\* save_merged_categories(pattern, outname)
save_merged_categories(fs, stem) ==
    [fs EXCEPT ![MergedFile(stem)] = JsonList(merge_category_json_files(fs, stem))]

\* the six merges that end main(), in program order
MergeAll(fs) ==
    LET f1 == save_merged(fs, "AI_Categorisation_cleaned")
        f2 == save_merged(f1, "AI_Categorisation")
        f3 == save_merged(f2, "uncategorized_transactions")
        f4 == save_merged(f3, "inconsistent_categorizations")
        f5 == save_merged_categories(f4, "AI_Categorisation_cleaned")
    IN  save_merged_categories(f5, "AI_Categorisation")

(***************************************************************************)
(* The Evaluator's output files                                            *)
(***************************************************************************)
\* the lookup by position instead of by text: the first transaction
TxTextToFullFirst(transactions, text) ==
    IF transactions = <<>> THEN <<>> ELSE transactions[1]

\* tx_text_to_full[text]: the last transaction with that text
TxTextToFull(transactions, text) ==
    LET at == {i \in 1..Len(transactions) : TxText(transactions[i]) = text}
    IN  IF at = {} THEN <<>>
        ELSE transactions[CHOOSE i \in at : \A j \in at : j <= i]

\* list(cats): the elements of a set of strings in an order the run does not fix
Orderings(S) ==
    {seq \in [1..Cardinality(S) -> S] : {seq[i] : i \in 1..Cardinality(S)} = S}

\* the lists save_inconsistent_categorizations may write
RECURSIVE InconsistentLists(_, _)
InconsistentLists(inconsistent, transactions) ==
    IF inconsistent = <<>> THEN {<<>>}
    ELSE LET item == Head(inconsistent)
             tx_full == TxTextToFull(transactions, item.key)
         IN  {<<IF DOMAIN tx_full # {}
                 THEN [transaction |-> tx_full, categories |-> cats]
                 ELSE [transaction_text |-> item.key, categories |-> cats]>> \o rest :
                cats \in Orderings(item.val),
                rest \in InconsistentLists(Tail(inconsistent), transactions)}

\* confidences of print_confidence_statistics
Confidences(keyword_confidence) ==
    [i \in 1..Len(keyword_confidence) |-> keyword_confidence[i].val]

\* the quotient without the test of the list: 100 * matched / len(transactions)
CoverageUnguarded(transactions, unmatched) ==
    [num |-> 100 * (Len(transactions) - Len(unmatched)), den |-> Len(transactions)]

\* coverage = 100 * (len(transactions) - len(unmatched)) / len(transactions)
\*            if transactions else 0
\* The quotient of two ints is kept as the fraction num / den, the int 0 as 0 / 1.
Coverage(transactions, unmatched) ==
    IF transactions # <<>>
    THEN [num |-> 100 * (Len(transactions) - Len(unmatched)), den |-> Len(transactions)]
    ELSE [num |-> 0, den |-> 1]

\* what print_summary prints, but for the two decimals of the coverage
print_summary(transactions, unmatched, inconsistent) ==
    [total |-> Len(transactions),
     matched |-> Len(transactions) - Len(unmatched),
     unmatched |-> Len(unmatched),
     inconsistent |-> Len(inconsistent),
     coverage |-> Coverage(transactions, unmatched)]
NoSummary == [total |-> 0 - 1]

(***************************************************************************)
(* State                                                                   *)
(***************************************************************************)
NewRound(k, input) ==
    [round |-> k, classifier_in |-> input, gencat |-> "pending", clean |-> "pending",
     eval |-> "pending", eval_in |-> Pending, unmatched_out |-> Pending,
     matched_categories |-> <<>>, summary |-> NoSummary,
     index |-> <<>>, duplicates |-> <<>>, missing |-> {},
     count |-> NoneCount]

EmptyDirs == [f \in FileNames |-> Absent]

\* what one round of an earlier run leaves in outputs/ when its three stages
\* succeed on the given response (a categorisation without inconsistencies)
EarlierRound(fs, k, transactions, raw) ==
    LET cleaned == clean_ai_categorisation(raw.v)
        m == build_keyword_mappings(cleaned)
    IN  [fs EXCEPT
            ![cat_path(k)] = raw,
            ![cleaned_cat_path(k)] = JsonList(cleaned),
            ![uncategorized_path(k)] =
                JsonList(match_transactions(transactions, m.keyword_to_category).unmatched),
            ![inconsistent_path(k)] = JsonList(<<>>),
            ![HistogramFile] = [kind |-> "png", text |-> "",
                                v |-> Confidences(m.keyword_confidence)]]

\* the transactions of the earlier run: the first two of this run's and one
\* that is no longer in inputs/transactions.json
OldTransaction == [sender_receiver |-> <<"Z">>, booking_text |-> <<"y">>, purpose |-> <<>>]
OldTransactions == <<Transaction(1), Transaction(2), OldTransaction>>
OldResponse(letter) ==
    JsonList(<<GenAICat(Leisure, <<KeywordEntry(<<letter>>, "r0", 70)>>)>>)

\* outputs/ as left by an earlier run of main() that stalled in round 3 with
\* unmatched counts 2, 1, 1
LeftoverDirs ==
    LET r1 == EarlierRound(EmptyDirs, 1, OldTransactions, OldResponse("a"))
        r2 == EarlierRound(r1, 2, r1[uncategorized_path(1)].v, OldResponse("b"))
        r3 == EarlierRound(r2, 3, r2[uncategorized_path(2)].v, OldResponse("c"))
    IN  MergeAll(r3)

\* the directories before main() starts: a first run and a run after an
\* earlier one, each with and without inputs/transactions.json
InitialFiles ==
    {[EmptyDirs EXCEPT ![TransactionsFile] = JsonList(AllTransactions)],
     EmptyDirs,
     [LeftoverDirs EXCEPT ![TransactionsFile] = JsonList(AllTransactions)],
     LeftoverDirs}

Init ==
    /\ pc = "start"
    /\ iteration = 1
    /\ previous_count = NoneCount
    /\ gen_cat_input = TransactionsFile
    /\ files \in InitialFiles
    /\ status = "Running"
    /\ attempt = 0
    /\ batch = <<>>
    /\ response = NoResponse
    /\ log = <<>>
    /\ mergeRuns = 0
    /\ refineLocals = NoRefine

(***************************************************************************)
(* main(): what the loop passes to the three scripts, and its control flow *)
(***************************************************************************)
\* run_script([GenCat.py, gen_cat_input, cat_path])
GenCatArgs == [input_file |-> gen_cat_input, output_file |-> cat_path(iteration)]
\* run_script([clean_ai_categorisation.py, cat_path, cleaned_cat_path])
CleanArgs == [input_path |-> cat_path(iteration),
              output_path |-> cleaned_cat_path(iteration)]
\* the Evaluator given the full transaction set in every round
EvalArgsAllTransactions ==
    [transactions_path |-> TransactionsFile,
     categories_path |-> cleaned_cat_path(iteration),
     uncategorized_path |-> uncategorized_path(iteration),
     inconsistent_path |-> inconsistent_path(iteration)]

\* run_script([gen_cat_eval.py, gen_cat_input, cleaned_cat_path,
\*             uncategorized_path, inconsistent_path])
EvalArgs == [transactions_path |-> gen_cat_input,
             categories_path |-> cleaned_cat_path(iteration),
             uncategorized_path |-> uncategorized_path(iteration),
             inconsistent_path |-> inconsistent_path(iteration)]

\* the loop bound one short: while iteration < MAX_ITERATIONS
LoopContinuesShort(k) == k < MAX_ITERATIONS

\* while iteration <= MAX_ITERATIONS
LoopContinues(k) == k <= MAX_ITERATIONS

\* a break that returns from main() instead of falling through to the merges
AfterLoopReturn(exit) == IF exit = "break" THEN "done" ELSE "merge"

\* where control goes when the loop is left, by a break or by the else clause
\* of the while: both fall through to the merges
AfterLoop(exit) == "merge"

\* the Cleaner's run_script left out: GenCat is followed by the Evaluator
AfterScriptSkipClean(stage, exit) ==
    CASE stage = "GenCat" -> "eval"
      [] stage = "clean" -> "eval"
      [] stage = "eval" -> "check"

\* run_script returns whatever the exit status of the subprocess was: main()
\* goes on to the next statement
AfterScript(stage, exit) ==
    CASE stage = "GenCat" -> "clean"
      [] stage = "clean" -> "eval"
      [] stage = "eval" -> "check"

(***************************************************************************)
(* scripts/GenCat.py, run by run_script for the current iteration          *)
(***************************************************************************)
\* GenCat.main() up to the retry loop: it reads the input file
GenCatStart ==
    /\ pc = "start"
    /\ files[GenCatArgs.input_file].kind = "list"
    /\ batch' = files[GenCatArgs.input_file].v
    /\ attempt' = 0
    /\ response' = NoResponse
    /\ log' = Append(log, NewRound(iteration, files[GenCatArgs.input_file]))
    /\ pc' = "attempt"
    /\ UNCHANGED <<iteration, previous_count, gen_cat_input, files, status, mergeRuns>>
    /\ UNCHANGED refineLocals

\* open(input_file) or json.load raises: the script ends before any call
GenCatNoInput ==
    /\ pc = "start"
    /\ files[GenCatArgs.input_file].kind # "list"
    /\ response' = NoResponse
    /\ attempt' = 0
    /\ log' = Append(log, [NewRound(iteration, files[GenCatArgs.input_file])
                             EXCEPT !.gencat = "error"])
    /\ pc' = AfterScript("GenCat", "error")
    /\ UNCHANGED <<iteration, previous_count, gen_cat_input, files, status, batch, mergeRuns>>
    /\ UNCHANGED refineLocals

\* a call whose response.text, one of texts, parses: leave the loop, write
\* output_file and log_prompt.json
AttemptValidFrom(texts) ==
    /\ pc = "attempt"
    /\ attempt < MAX_ATTEMPTS
    /\ \E text \in texts :
        /\ is_valid_json(text)
        /\ response' = text
        /\ files' = [files EXCEPT ![GenCatArgs.output_file] = text,
                                  ![LogPromptFile] = [kind |-> "prompt", text |-> "", v |-> batch]]
    /\ attempt' = attempt + 1
    /\ log' = [log EXCEPT ![Len(log)].gencat = "ok"]
    /\ pc' = AfterScript("GenCat", "ok")
    /\ UNCHANGED <<iteration, previous_count, gen_cat_input, status, batch, mergeRuns>>
    /\ UNCHANGED refineLocals

AttemptValid == AttemptValidFrom(Responses)

\* a call that returns one keyword under two categories, in two spellings
AttemptConflicting == AttemptValidFrom(ConflictingResponses)

\* a call whose response.text does not parse, with attempts left: sleep and retry
AttemptRetry ==
    /\ pc = "attempt"
    /\ attempt + 1 < MAX_ATTEMPTS
    /\ \E text \in Responses :
        /\ ~is_valid_json(text)
        /\ response' = text
    /\ attempt' = attempt + 1
    /\ UNCHANGED <<pc, iteration, previous_count, gen_cat_input, files, status, batch,
                   log, mergeRuns>>
    /\ UNCHANGED refineLocals

\* the last call does not parse either, and the script writes an empty
\* categorisation and exits normally
AttemptFailSilent ==
    /\ pc = "attempt"
    /\ attempt + 1 = MAX_ATTEMPTS
    /\ \E text \in Responses :
        /\ ~is_valid_json(text)
        /\ response' = text
        /\ files' = [files EXCEPT ![GenCatArgs.output_file] = JsonList(<<>>)]
    /\ attempt' = attempt + 1
    /\ log' = [log EXCEPT ![Len(log)].gencat = "ok"]
    /\ pc' = AfterScript("GenCat", "ok")
    /\ UNCHANGED <<iteration, previous_count, gen_cat_input, status, batch, mergeRuns>>
    /\ UNCHANGED refineLocals

\* the last call does not parse either: the else of the for loop writes
\* response.text to output_file and raises RuntimeError
AttemptFail ==
    /\ pc = "attempt"
    /\ attempt + 1 = MAX_ATTEMPTS
    /\ \E text \in Responses :
        /\ ~is_valid_json(text)
        /\ response' = text
        /\ files' = [files EXCEPT ![GenCatArgs.output_file] = text]
    /\ attempt' = attempt + 1
    /\ log' = [log EXCEPT ![Len(log)].gencat = "ClassificationFailed"]
    /\ pc' = AfterScript("GenCat", "ClassificationFailed")
    /\ UNCHANGED <<iteration, previous_count, gen_cat_input, status, batch, mergeRuns>>
    /\ UNCHANGED refineLocals

\* the call wrapped in a try whose handler sleeps and continues the loop
AttemptTransportErrorRetried ==
    /\ pc = "attempt"
    /\ attempt < MAX_ATTEMPTS
    /\ attempt' = attempt + 1
    /\ response' = NoResponse
    /\ IF attempt + 1 < MAX_ATTEMPTS
       THEN UNCHANGED <<pc, log>>
       ELSE /\ log' = [log EXCEPT ![Len(log)].gencat = "error"]
            /\ pc' = AfterScript("GenCat", "error")
    /\ UNCHANGED <<iteration, previous_count, gen_cat_input, files, status, batch,
                   mergeRuns>>
    /\ UNCHANGED refineLocals

\* generate_content raises (transport, authentication): the call yields no
\* response and nothing is written
AttemptTransportError ==
    /\ pc = "attempt"
    /\ attempt < MAX_ATTEMPTS
    /\ attempt' = attempt + 1
    /\ response' = NoResponse
    /\ log' = [log EXCEPT ![Len(log)].gencat = "error"]
    /\ pc' = AfterScript("GenCat", "error")
    /\ UNCHANGED <<iteration, previous_count, gen_cat_input, files, status, batch,
                   mergeRuns>>
    /\ UNCHANGED refineLocals

(***************************************************************************)
(* scripts/clean_ai_categorisation.py, run by run_script                   *)
(***************************************************************************)
\* The GenCat process has exited: its locals (attempt, transactions, response)
\* are gone when the next subprocess starts.
Clean ==
    /\ pc = "clean"
    /\ IF files[CleanArgs.input_path].kind = "list"
       THEN /\ files' = [files EXCEPT ![CleanArgs.output_path] =
                            JsonList(clean_ai_categorisation(files[CleanArgs.input_path].v))]
            /\ log' = [log EXCEPT ![Len(log)].clean = "ok"]
            /\ pc' = AfterScript("clean", "ok")
       ELSE \* load_json raises, or entry.get does on a non-list
            /\ log' = [log EXCEPT ![Len(log)].clean = "error"]
            /\ pc' = AfterScript("clean", "error")
            /\ UNCHANGED files
    /\ attempt' = 0
    /\ batch' = <<>>
    /\ response' = NoResponse
    /\ UNCHANGED <<iteration, previous_count, gen_cat_input, status, mergeRuns>>
    /\ UNCHANGED refineLocals

(***************************************************************************)
(* scripts/gen_cat_eval.py, run by run_script                              *)
(***************************************************************************)
Eval ==
    /\ pc = "eval"
    /\ IF /\ files[EvalArgs.transactions_path].kind = "list"
          /\ files[EvalArgs.categories_path].kind = "list"
       THEN LET transactions == files[EvalArgs.transactions_path].v
                m == build_keyword_mappings(files[EvalArgs.categories_path].v)
                matching == match_transactions(transactions, m.keyword_to_category)
                unmatched == matching.unmatched
                inconsistent == check_category_consistency(transactions, m.keyword_to_category)
                confidences == Confidences(m.keyword_confidence)
            IN  /\ \E inconsistent_list \in InconsistentLists(inconsistent, transactions) :
                    files' = [files EXCEPT
                        ![EvalArgs.uncategorized_path] = JsonList(unmatched),
                        ![EvalArgs.inconsistent_path] = JsonList(inconsistent_list),
                        ![HistogramFile] =
                            IF confidences # <<>>
                            THEN [kind |-> "png", text |-> "", v |-> confidences] ELSE @]
                /\ log' = [log EXCEPT ![Len(log)].eval = "ok",
                                      ![Len(log)].eval_in = files[EvalArgs.transactions_path],
                                      ![Len(log)].unmatched_out = JsonList(unmatched),
                                      ![Len(log)].matched_categories =
                                            matching.matched_categories,
                                      ![Len(log)].summary =
                                            print_summary(transactions, unmatched, inconsistent),
                                      ![Len(log)].index =
                                            [keyword_to_category |-> m.keyword_to_category,
                                             category_to_keywords |-> m.category_to_keywords],
                                      ![Len(log)].duplicates =
                                            find_duplicate_keywords(m.keyword_to_category),
                                      ![Len(log)].missing =
                                            find_missing_categories(m.category_to_keywords)]
                /\ pc' = AfterScript("eval", "ok")
       ELSE \* load_data raises
            /\ log' = [log EXCEPT ![Len(log)].eval = "error",
                                  ![Len(log)].eval_in = files[EvalArgs.transactions_path]]
            /\ pc' = AfterScript("eval", "error")
            /\ UNCHANGED files
    /\ UNCHANGED <<iteration, previous_count, gen_cat_input, status, attempt, batch,
                   response, mergeRuns>>
    /\ UNCHANGED refineLocals

(***************************************************************************)
(* main(): the end of the loop body and the merges                         *)
(***************************************************************************)
load_uncategorized_count(fs, path) ==
    IF fs[path].kind = "absent" THEN 0 ELSE Len(fs[path].v)

\* the zero test nested under the test of previous_count
IsConvergedAfterFirst(count, previous) == previous # NoneCount /\ count = 0

\* count == 0: break
IsConverged(count, previous) == count = 0

\* the comparison inverted: stop when the count went down
IsStalledInverted(count, previous) == previous # NoneCount /\ count < previous

\* previous_count is not None and count == previous_count: break
IsStalled(count, previous) == previous # NoneCount /\ count = previous

Check ==
    /\ pc = "check"
    /\ LET count == load_uncategorized_count(files, uncategorized_path(iteration))
       IN  /\ log' = [log EXCEPT ![Len(log)].count = count]
           /\ IF IsConverged(count, previous_count)
              THEN /\ status' = "Converged"
                   /\ pc' = AfterLoop("break")
                   /\ UNCHANGED <<iteration, previous_count, gen_cat_input>>
              ELSE IF IsStalled(count, previous_count)
              THEN /\ status' = "Stalled"
                   /\ pc' = AfterLoop("break")
                   /\ UNCHANGED <<iteration, previous_count, gen_cat_input>>
              ELSE /\ previous_count' = count
                   /\ iteration' = iteration + 1
                   /\ gen_cat_input' = uncategorized_path(iteration)
                   /\ IF LoopContinues(iteration + 1)
                      THEN pc' = "start" /\ UNCHANGED status
                      ELSE pc' = AfterLoop("else") /\ status' = "Exhausted"
    /\ UNCHANGED <<files, attempt, batch, response, mergeRuns>>
    /\ UNCHANGED refineLocals

Merge ==
    /\ pc = "merge"
    /\ files' = MergeAll(files)
    /\ mergeRuns' = mergeRuns + 1
    /\ pc' = "done"
    /\ UNCHANGED <<iteration, previous_count, gen_cat_input, status, attempt, batch,
                   response, log>>
    /\ UNCHANGED refineLocals

Next ==
    \/ GenCatStart
    \/ GenCatNoInput
    \/ AttemptValid
    \/ AttemptRetry
    \/ AttemptFail
    \/ AttemptTransportError
    \/ Clean
    \/ Eval
    \/ Check
    \/ Merge

\* a run of main() from any of the initial directories
Spec == Init /\ [][Next]_vars

\* Control moves on: the statement at pc, or the call of the current attempt,
\* is left.  Every step of Next is such a step, and one is possible in every
\* state in which main() has not returned.
PcValues == {"start", "attempt", "clean", "eval", "check", "merge", "done"}
Advance ==
    /\ pc # "done"
    /\ pc' \in PcValues /\ attempt' \in 0..MAX_ATTEMPTS

\* the same runs, in which the process is scheduled until main() returns
FairSpec == Spec /\ WF_<<pc, attempt>>(Advance)

(***************************************************************************)
(* Runs of main() in which every call of the Classifier returns, at the    *)
(* first attempt, a keyword under two categories: rounds that report       *)
(* inconsistent transactions and leave others unmatched.                   *)
(***************************************************************************)
InitRounds ==
    /\ Init
    /\ files[TransactionsFile].kind = "list"

NextRounds ==
    \/ GenCatStart
    \/ AttemptConflicting
    \/ Clean
    \/ Eval
    \/ Check
    \/ Merge

SpecRounds == InitRounds /\ [][NextRounds]_vars

(***************************************************************************)
(* Runs of the Cleaner on every raw categorisation within the bounds: the  *)
(* state right after GenCat has stored a response in round 1.              *)
(***************************************************************************)
CleanCategories == {Other, <<" ">> \o Other, Lower(Other), Rent, Leisure}
CleanKeywordObjs ==
    {KeywordEntry(<<"a">>, "r1", 90), KeywordEntry(<<" ", "a">>, "r2", 50),
     KeywordEntry(<<"b">>, "r1", 90)}

NoKeyword == [reasoning |-> "none"]

\* The raw categorisation that lists the assignments cats[i], kws[i] in this
\* order: assignment i goes into the entry of assignment i-1 when joins[i]
\* holds, and opens a new entry otherwise; kws[i] = NoKeyword stands for an
\* entry without keywords.
RECURSIVE RawBatch(_, _, _, _)
RawBatch(cats, kws, joins, n) ==
    IF n = 0 THEN <<>>
    ELSE LET before == RawBatch(cats, kws, joins, n - 1)
         IN  IF joins[n]
             THEN [before EXCEPT ![Len(before)].Keywords = Append(@, kws[n])]
             ELSE Append(before, GenAICat(cats[n],
                            IF kws[n] = NoKeyword THEN <<>> ELSE <<kws[n]>>))

\* joins is well formed: an assignment joins only an entry of its category
\* that has a keyword
Joinable(cats, kws, joins, n) ==
    \A i \in 1..n :
        joins[i] => /\ i > 1
                    /\ cats[i] = cats[i - 1]
                    /\ kws[i] # NoKeyword /\ kws[i - 1] # NoKeyword

InitClean ==
    /\ pc = "clean"
    /\ iteration = 1
    /\ previous_count = NoneCount
    /\ gen_cat_input = TransactionsFile
    /\ \E n \in 0..MaxAssignments :
       \E cats \in [1..n -> CleanCategories] :
       \E kws \in [1..n -> CleanKeywordObjs \cup {NoKeyword}] :
       \E joins \in [1..n -> BOOLEAN] :
        /\ Joinable(cats, kws, joins, n)
        /\ response = JsonList(RawBatch(cats, kws, joins, n))
        /\ files = [EmptyDirs EXCEPT
                        ![TransactionsFile] = JsonList(AllTransactions),
                        ![cat_path(1)] = response,
                        ![LogPromptFile] = [kind |-> "prompt", text |-> "",
                                            v |-> AllTransactions]]
    /\ status = "Running"
    /\ attempt = 1
    /\ batch = AllTransactions
    /\ log = <<[NewRound(1, JsonList(AllTransactions)) EXCEPT !.gencat = "ok"]>>
    /\ mergeRuns = 0
    /\ refineLocals = NoRefine

SpecClean == InitClean /\ [][Clean]_vars

(***************************************************************************)
(* Runs of the merges on the files of completed rounds: the state in which *)
(* main() has left the loop.  Each round's four files are what the three   *)
(* stages leave for a batch and a response; outputs/ keeps the files of    *)
(* earlier runs, so the rounds need not be those of one run.               *)
(***************************************************************************)
MergeBatches == {<<Transaction(1), Transaction(2)>>, <<Transaction(3), Transaction(2)>>}
MergeResponses ==
    {<<>>,
     <<GenAICat(Rent, <<KeywordEntry(<<"a">>, "r1", 90)>>)>>,
     <<GenAICat(Leisure, <<KeywordEntry(<<"a">>, "r2", 50)>>)>>,
     <<GenAICat(Other, <<KeywordEntry(<<"a">>, "r3", 10)>>)>>,
     <<GenAICat(Leisure, <<KeywordEntry(<<"a">>, "r2", 50)>>),
       GenAICat(Rent, <<KeywordEntry(<<"A">>, "r1", 90)>>)>>}

\* the files of round k after GenCat stored raw, the Cleaner cleaned it and the
\* Evaluator evaluated transactions and wrote inconsistent_list
CompletedRound(fs, k, transactions, raw, inconsistent_list) ==
    LET cleaned == clean_ai_categorisation(raw)
        m == build_keyword_mappings(cleaned)
        confidences == Confidences(m.keyword_confidence)
    IN  [fs EXCEPT
            ![cat_path(k)] = JsonList(raw),
            ![cleaned_cat_path(k)] = JsonList(cleaned),
            ![uncategorized_path(k)] =
                JsonList(match_transactions(transactions, m.keyword_to_category).unmatched),
            ![inconsistent_path(k)] = JsonList(inconsistent_list),
            ![HistogramFile] =
                IF confidences # <<>>
                THEN [kind |-> "png", text |-> "", v |-> confidences] ELSE @]

\* the lists the Evaluator may write as inconsistent_path for transactions and raw
InconsistentChoices(transactions, raw) ==
    LET m == build_keyword_mappings(clean_ai_categorisation(raw))
    IN  InconsistentLists(
            check_category_consistency(transactions, m.keyword_to_category),
            transactions)

\* the directories that hold the files of rounds 1..n
RECURSIVE RoundDirs(_)
RoundDirs(n) ==
    IF n = 0 THEN {[EmptyDirs EXCEPT ![TransactionsFile] = JsonList(AllTransactions)]}
    ELSE UNION {UNION {{CompletedRound(fs, n, transactions, raw, inconsistent_list) :
                            inconsistent_list \in InconsistentChoices(transactions, raw)} :
                       transactions \in MergeBatches, raw \in MergeResponses} :
                fs \in RoundDirs(n - 1)}

InitMerge ==
    /\ pc = "merge"
    /\ \E n \in 1..MaxMergeRounds :
        /\ iteration = n
        /\ files \in RoundDirs(n)
        /\ gen_cat_input = IF n = 1 THEN TransactionsFile ELSE uncategorized_path(n - 1)
    /\ previous_count = NoneCount
    /\ status = "Converged"
    /\ attempt = 0
    /\ batch = <<>>
    /\ response = NoResponse
    /\ log = <<>>
    /\ mergeRuns = 0
    /\ refineLocals = NoRefine

SpecMerge == InitMerge /\ [][Merge]_vars

(***************************************************************************)
(* Runs of the Evaluator on every transaction list and every cleaned       *)
(* categorisation within the bounds: the state in which main() starts      *)
(* gen_cat_eval.py in round 1, after GenCat stored a response and the      *)
(* Cleaner cleaned it.                                                     *)
(***************************************************************************)
\* texts "a x ", "b x " and "b  a"
EvalTransactions ==
    {Transaction(1), Transaction(2),
     [sender_receiver |-> <<"B">>, booking_text |-> <<>>, purpose |-> <<"A">>]}
\* keywords: blank, lower case, upper case with a blank, and one of the
\* booking text
EvalKeywords == {<<" ">>, <<"a">>, <<"A", " ">>, <<"x">>}
EvalCategories == {Rent, Leisure}

\* the response that lists the assignments cats[i], kws[i], an entry each
EvalResponse(cats, kws, n) ==
    [i \in 1..n |-> GenAICat(cats[i], <<KeywordEntry(kws[i], "r1", 90)>>)]

InitEval ==
    /\ pc = "eval"
    /\ iteration = 1
    /\ previous_count = NoneCount
    /\ gen_cat_input = TransactionsFile
    /\ \E t \in 0..MaxEvalTx :
       \E transactions \in [1..t -> EvalTransactions] :
       \E n \in 0..MaxEvalKeywords :
       \E cats \in [1..n -> EvalCategories] :
       \E kws \in [1..n -> EvalKeywords] :
        /\ files = [EmptyDirs EXCEPT
                        ![TransactionsFile] = JsonList(transactions),
                        ![cat_path(1)] = JsonList(EvalResponse(cats, kws, n)),
                        ![cleaned_cat_path(1)] =
                            JsonList(clean_ai_categorisation(EvalResponse(cats, kws, n))),
                        ![LogPromptFile] = [kind |-> "prompt", text |-> "",
                                            v |-> transactions]]
        /\ log = <<[NewRound(1, JsonList(transactions))
                      EXCEPT !.gencat = "ok", !.clean = "ok"]>>
    /\ status = "Running"
    /\ attempt = 0
    /\ batch = <<>>
    /\ response = NoResponse
    /\ mergeRuns = 0
    /\ refineLocals = NoRefine

SpecEval == InitEval /\ [][Eval]_vars

(***************************************************************************)
(* Runs of the Cleaner followed by the Evaluator on responses whose        *)
(* keywords differ in letter case only or lack the keyword field: the      *)
(* state right after GenCat has stored a response in round 1.              *)
(***************************************************************************)
StageBatches == {<<Transaction(1), Transaction(2)>>, <<Transaction(2)>>}
\* keyword objects: lower case, upper case, another keyword, and one that
\* has no keyword field
StageKeywordObjs ==
    {KeywordEntry(<<"a">>, "r1", 90), KeywordEntry(<<"A">>, "r2", 50),
     KeywordEntry(<<"x">>, "r1", 90), [reasoning |-> "r3", confidence |-> 10]}
StageResponse(cats, kws, n) == [i \in 1..n |-> GenAICat(cats[i], <<kws[i]>>)]

InitStages ==
    /\ pc = "clean"
    /\ iteration = 1
    /\ previous_count = NoneCount
    /\ gen_cat_input = TransactionsFile
    /\ batch \in StageBatches
    /\ \E n \in 0..MaxStageKeywords :
       \E cats \in [1..n -> EvalCategories] :
       \E kws \in [1..n -> StageKeywordObjs] :
        response = JsonList(StageResponse(cats, kws, n))
    /\ files = [EmptyDirs EXCEPT
                    ![TransactionsFile] = JsonList(batch),
                    ![cat_path(1)] = response,
                    ![LogPromptFile] = [kind |-> "prompt", text |-> "", v |-> batch]]
    /\ status = "Running"
    /\ attempt = 1
    /\ log = <<[NewRound(1, JsonList(batch)) EXCEPT !.gencat = "ok"]>>
    /\ mergeRuns = 0
    /\ refineLocals = NoRefine

SpecStages == InitStages /\ [][Clean \/ Eval]_vars

(***************************************************************************)
(* Properties of the Round Orchestrator                                    *)
(***************************************************************************)
Rounds == 1..Len(log)
Counted(k) == log[k].count # NoneCount
Stopped == pc \in {"merge", "done"}

\* round k > 1 ended with a non-zero count equal to that of round k-1
RepeatsCount(k) ==
    k > 1 /\ Counted(k) /\ log[k].count # 0 /\ log[k].count = log[k - 1].count

\* C1: the orchestrator stops in Stalled at the first round k > 1 whose
\* unmatched count is non-zero and equals that of round k-1, no further round
\* is started, and it is in Stalled only then; round 1 never ends in Stalled.
C1_StallDetection ==
    /\ \A k \in Rounds :
          RepeatsCount(k) => status = "Stalled" /\ Stopped /\ Len(log) = k
    /\ status = "Stalled" => Len(log) > 1 /\ RepeatsCount(Len(log))

\* counts n, m, m with n > m > 0: stopped after round 3 in Stalled
C1_Witness ==
    /\ pc = "done" /\ status = "Stalled" /\ Len(log) = 3
    /\ log[1].count > log[2].count /\ log[2].count = log[3].count /\ log[3].count > 0

\* C2: the orchestrator stops in Converged at the first round whose unmatched
\* count is 0, whatever the previous count and the round number (round 5
\* included), no further round is started, and it is in Converged only then.
C2_Convergence ==
    /\ \A k \in Rounds :
          (Counted(k) /\ log[k].count = 0) =>
              status = "Converged" /\ Stopped /\ Len(log) = k
    /\ status = "Converged" => Counted(Len(log)) /\ log[Len(log)].count = 0

\* round 5 ends with count 0 after four rounds that left transactions unmatched
C2_Witness ==
    /\ pc = "done" /\ status = "Converged" /\ Len(log) = 5
    /\ \A k \in 1..4 : log[k].count > 0
    /\ log[5].eval = "ok"

\* C3: at most 5 rounds are started; the orchestrator is in Exhausted exactly
\* when round 5 has ended with a non-zero count that differs from round 4's;
\* the three stages of round 5 have run by then.
C3_Exhausted ==
    /\ Len(log) <= 5
    /\ \A k \in Rounds : log[k].round = k
    /\ status = "Exhausted" <=>
          /\ Len(log) = 5 /\ Counted(5)
          /\ log[5].count # 0 /\ log[5].count # log[4].count
    /\ status = "Exhausted" =>
          /\ Stopped
          /\ log[5].gencat # "pending" /\ log[5].clean # "pending" /\ log[5].eval # "pending"

\* five rounds whose stages all succeeded, ending in Exhausted
C3_Witness ==
    /\ pc = "done" /\ status = "Exhausted"
    /\ \A k \in Rounds : log[k].gencat = "ok" /\ log[k].clean = "ok" /\ log[k].eval = "ok"

(***************************************************************************)
(* Properties of stage failures and of the hand-off between rounds         *)
(***************************************************************************)
Terminal == {"Converged", "Stalled", "Exhausted"}
ClassificationFailed(k) == log[k].gencat = "ClassificationFailed"

\* C4: when the adapter of round k ends in ClassificationFailed the pipeline
\* aborts: the Cleaner and the Evaluator of round k are not run, no round k+1
\* is started, no terminal state is reported and the merger is not run.
C4_AbortOnClassificationFailed ==
    \A k \in Rounds :
        ClassificationFailed(k) =>
            /\ log[k].clean = "pending" /\ log[k].eval = "pending"
            /\ Len(log) = k
            /\ status = "Running"
            /\ mergeRuns = 0

\* C5: a run without ClassificationFailed ends in one of Converged, Stalled
\* and Exhausted with the merger run exactly once; the merger runs only after
\* the loop is left in one of these states, when the last round's Evaluator
\* has finished, and at most once.
C5_TerminatesAndMergesOnce ==
    /\ <>(\/ \E k \in Rounds : ClassificationFailed(k)
          \/ pc = "done" /\ status \in Terminal /\ mergeRuns = 1)
    /\ [](status \in Terminal <=> Stopped)
    /\ [](mergeRuns > 0 =>
            /\ mergeRuns = 1 /\ pc = "done" /\ status \in Terminal
            /\ log[Len(log)].eval # "pending")
    /\ [](pc = "merge" => mergeRuns = 0 /\ log[Len(log)].eval # "pending")

\* a run without ClassificationFailed that stopped in Stalled and merged
C5_Witness ==
    /\ pc = "done" /\ mergeRuns = 1 /\ status = "Stalled"
    /\ \A k \in Rounds : ~ClassificationFailed(k) /\ log[k].eval = "ok"

\* C6: the Classifier and the Evaluator of round 1 read the full transaction
\* set, and those of every round k+1 read exactly the unmatched list that the
\* Evaluator of round k has produced.
C6_Handoff ==
    \A k \in Rounds :
        LET given == IF k = 1 THEN files[TransactionsFile] ELSE log[k - 1].unmatched_out
        IN  /\ log[k].classifier_in = given
            /\ log[k].eval # "pending" => log[k].eval_in = given

\* C7: the adapter makes at most 3 calls; a further call follows only a call
\* that returned malformed text; a call that returns valid text ends the
\* adapter, which has then written that text as the raw categorisation.
C7_Retry ==
    [][/\ attempt' <= 3
       /\ (attempt >= 1 /\ attempt' = attempt + 1) => response.kind = "malformed"
       /\ (pc = "attempt" /\ response'.kind \in {"list", "object"}) =>
              /\ pc' = "clean"
              /\ log'[Len(log')].gencat = "ok"
              /\ files'[cat_path(iteration)] = response'
       /\ (pc = "attempt" /\ log'[Len(log')].gencat = "ok") =>
              response'.kind \in {"list", "object"}
      ]_vars

\* the third call returned valid text after two malformed ones
C7_Witness ==
    /\ pc = "clean" /\ attempt = 3 /\ log[Len(log)].gencat = "ok"
    /\ response.kind = "list" /\ response.v # <<>>
    /\ files[cat_path(iteration)] = response

\* C8: when the third call of a round returned malformed text too, the raw
\* categorisation file holds that last text and the adapter has failed with
\* ClassificationFailed; success is reported only with a valid response.
C8_HardFailure ==
    pc = "clean" =>
        /\ (attempt = 3 /\ response.kind = "malformed") =>
              /\ log[Len(log)].gencat = "ClassificationFailed"
              /\ files[cat_path(iteration)] = response
        /\ log[Len(log)].gencat = "ok" =>
              /\ response.kind # "malformed"
              /\ files[cat_path(iteration)] = response

\* three malformed texts in a round after the first: the file of that round
\* holds the last one
C8_Witness ==
    /\ pc = "clean" /\ attempt = 3 /\ response.kind = "malformed"
    /\ iteration > 1
    /\ files[cat_path(iteration)] = response
    /\ log[Len(log)].gencat = "ClassificationFailed"

(***************************************************************************)
(* Properties of the Cleaner, on the raw and the cleaned file of round 1   *)
(***************************************************************************)
RawData == files[cat_path(1)].v
CleanedData == files[cleaned_cat_path(1)].v
HasCleaned == pc = "eval" /\ log[1].clean = "ok"

\* the places <<entry, keyword>> of a categorisation, and what is found there
Places(data) ==
    UNION {{<<i, j>> : j \in 1..Len(data[i].Keywords)} : i \in 1..Len(data)}
KeywordAt(data, p) == Strip(data[p[1]].Keywords[p[2]].keyword)
CategoryAt(data, p) == Strip(data[p[1]].Category)
PlacesOf(data, kw) == {p \in Places(data) : KeywordAt(data, p) = kw}
RawKeywords == {KeywordAt(RawData, p) : p \in Places(RawData)}

\* p comes before q in arrival order
Earlier(p, q) == p[1] < q[1] \/ (p[1] = q[1] /\ p[2] < q[2])

\* C9: the cleaned categorisation lists every trimmed keyword of the raw one at
\* exactly one place, so under one category and once within it, and no keyword
\* at two places.
C9_OneCategoryPerKeyword ==
    HasCleaned =>
        /\ \A kw \in RawKeywords : Cardinality(PlacesOf(CleanedData, kw)) = 1
        /\ \A p, q \in Places(CleanedData) :
              KeywordAt(CleanedData, p) = KeywordAt(CleanedData, q) => p = q
        /\ \A i, j \in 1..Len(CleanedData) :
              CleanedData[i].Category = CleanedData[j].Category => i = j

\* one keyword assigned three times, to two categories or more, with and
\* without surrounding blanks
C9_Witness ==
    /\ HasCleaned
    /\ \E kw \in RawKeywords :
          /\ Cardinality(PlacesOf(RawData, kw)) = 3
          /\ Cardinality({CategoryAt(RawData, p) : p \in PlacesOf(RawData, kw)}) >= 2
          /\ \E p, q \in PlacesOf(RawData, kw) :
                RawData[p[1]].Keywords[p[2]].keyword # RawData[q[1]].Keywords[q[2]].keyword
          /\ Cardinality(PlacesOf(CleanedData, kw)) = 1

\* the category the rule gives kw: that of its first assignment outside
\* "Other", and "Other" when there is none
FirstNonOther(kw) ==
    LET outside == {p \in PlacesOf(RawData, kw) : CategoryAt(RawData, p) # Other}
    IN  IF outside = {} THEN Other
        ELSE CategoryAt(RawData,
                CHOOSE p \in outside : \A q \in outside \ {p} : Earlier(p, q))

\* C10: every keyword ends up under the first category other than "Other"
\* under which it arrives, and under "Other" when it arrives under no other.
C10_OtherEviction ==
    HasCleaned =>
        \A kw \in RawKeywords :
            {CategoryAt(CleanedData, p) : p \in PlacesOf(CleanedData, kw)}
                = {FirstNonOther(kw)}

\* Other, then Rent, then Leisure: the keyword is under Rent
C10_Witness ==
    /\ HasCleaned
    /\ \E kw \in RawKeywords :
       \E p, q, r \in PlacesOf(RawData, kw) :
          /\ Earlier(p, q) /\ Earlier(q, r)
          /\ CategoryAt(RawData, p) = Other
          /\ CategoryAt(RawData, q) = Rent
          /\ CategoryAt(RawData, r) = Leisure
          /\ \E c \in Places(CleanedData) :
                KeywordAt(CleanedData, c) = kw /\ CategoryAt(CleanedData, c) = Rent

\* consecutive strings of s ascend strictly
Ascending(s) == \A i \in 1..(Len(s) - 1) : StrLess(s[i], s[i + 1])

\* C11: the cleaned categorisation lists the categories in ascending order of
\* name and the keywords of each category in ascending order of keyword, and
\* it is the one list that the raw categorisation determines.
C11_Canonical ==
    /\ [](HasCleaned =>
            /\ Ascending([i \in 1..Len(CleanedData) |-> CleanedData[i].Category])
            /\ \A i \in 1..Len(CleanedData) :
                  Ascending([j \in 1..Len(CleanedData[i].Keywords) |->
                                CleanedData[i].Keywords[j].keyword]))
    /\ [][pc = "clean" =>
            files'[cleaned_cat_path(1)] = JsonList(clean_ai_categorisation(RawData))]_vars

\* one category whose keywords arrive in descending order and leave ascending
C11_Witness ==
    /\ HasCleaned
    /\ Len(RawData) = 1 /\ Len(RawData[1].Keywords) = 2
    /\ StrLess(KeywordAt(RawData, <<1, 2>>), KeywordAt(RawData, <<1, 1>>))
    /\ Len(CleanedData) = 1 /\ Len(CleanedData[1].Keywords) = 2
    /\ StrLess(CleanedData[1].Keywords[1].keyword, CleanedData[1].Keywords[2].keyword)

(***************************************************************************)
(* Properties of the Cross-Round Merger                                    *)
(***************************************************************************)
HasMerged == pc = "done" /\ mergeRuns = 1
MergedCleaned == files[MergedFile("AI_Categorisation_cleaned")].v
MergedUnmatched == files[MergedFile("uncategorized_transactions")].v
MergedInconsistent == files[MergedFile("inconsistent_categorizations")].v

\* the rounds whose cleaned file is in outputs/, and their cleaned lists
CleanedRounds == {k \in 1..MAX_ITERATIONS : files[cleaned_cat_path(k)].kind = "list"}
CleanedOf(k) == files[cleaned_cat_path(k)].v

\* C12: in the merged categorisation every keyword is listed at one place,
\* under one category, also when two rounds gave it different categories.
C12_MergedOneCategoryPerKeyword ==
    HasMerged =>
        \A p, q \in Places(MergedCleaned) :
            KeywordAt(MergedCleaned, p) = KeywordAt(MergedCleaned, q) => p = q

\* the cleaned lists of rounds 1..k one after the other
RECURSIVE ConcatCleaned(_)
ConcatCleaned(k) ==
    IF k = 0 THEN <<>>
    ELSE ConcatCleaned(k - 1) \o (IF k \in CleanedRounds THEN CleanedOf(k) ELSE <<>>)

\* C13: the merged categorisation is what the Cleaner's rule (first seen wins,
\* "Other" gives way) makes of the rounds' cleaned lists put one after the
\* other in round order.
C13_MergeIsCleaning ==
    HasMerged =>
        MergedCleaned = clean_ai_categorisation(ConcatCleaned(MAX_ITERATIONS))

\* the directory without the per-round files of round k
WithoutRound(fs, k) ==
    [f \in DOMAIN fs |->
        IF f[1] = "outputs" /\ f[2] \in Stems /\ f[3] = k THEN Absent ELSE fs[f]]

\* rounds 1 and 2 are the only ones and each file of round 2 is a copy of the
\* file of round 1
DuplicateRound ==
    /\ \A stem \in Stems :
          /\ files[RoundFile(stem, 1)].kind = "list"
          /\ files[RoundFile(stem, 2)] = files[RoundFile(stem, 1)]
    /\ \A stem \in Stems, k \in 3..MAX_ITERATIONS : files[RoundFile(stem, k)] = Absent

\* C14: when the files of a round are in outputs/ a second time, each of the
\* four merged files is what the merges write for that round alone.
C14_MergeIdempotent ==
    [][(pc = "merge" /\ DuplicateRound) =>
          \A stem \in Stems :
              files'[MergedFile(stem)] = MergeAll(WithoutRound(files, 2))[MergedFile(stem)]
      ]_vars

\* merged from a round and its copy: transactions left unmatched, one
\* inconsistent transaction and a category with a keyword, each listed once
C14_Witness ==
    /\ HasMerged /\ DuplicateRound
    /\ Len(files[uncategorized_path(1)].v) = 1 /\ Len(MergedUnmatched) = 1
    /\ Len(files[inconsistent_path(1)].v) = 1 /\ Len(MergedInconsistent) = 1
    /\ Len(MergedCleaned) = 2
    /\ \A i \in 1..2 : Len(MergedCleaned[i].Keywords) = 1

\* the lists of the per-round files of stem, rounds 1..k, one after the other
RECURSIVE ConcatRounds(_, _)
ConcatRounds(stem, k) ==
    IF k = 0 THEN <<>>
    ELSE ConcatRounds(stem, k - 1) \o
         (IF files[RoundFile(stem, k)].kind = "list" THEN files[RoundFile(stem, k)].v
          ELSE <<>>)

\* the entries of the first n of all whose key no earlier entry has
RECURSIVE FirstOccurrences(_, _, _)
FirstOccurrences(all, keys, n) ==
    IF n = 0 THEN <<>>
    ELSE FirstOccurrences(all, keys, n - 1) \o
         (IF \E j \in 1..(n - 1) : keys[j] = keys[n] THEN <<>> ELSE <<all[n]>>)

\* an inconsistency is identified by its transaction and its set of categories
InconsistencyKey(e) ==
    [transaction |-> IF "transaction" \in DOMAIN e THEN e.transaction
                     ELSE e.transaction_text,
     categories |-> {e.categories[i] : i \in 1..Len(e.categories)}]

\* C15: the merged unmatched list holds the first occurrence of every
\* transaction record, and the merged inconsistent list the first occurrence
\* of every transaction with its set of categories, in the order of these
\* first occurrences over the rounds in round order.
C15_MergedFirstOccurrences ==
    HasMerged =>
        LET unmatched == ConcatRounds("uncategorized_transactions", MAX_ITERATIONS)
            inconsistent == ConcatRounds("inconsistent_categorizations", MAX_ITERATIONS)
        IN  /\ MergedUnmatched = FirstOccurrences(unmatched, unmatched, Len(unmatched))
            /\ MergedInconsistent =
                  FirstOccurrences(inconsistent,
                                   [i \in 1..Len(inconsistent) |->
                                        InconsistencyKey(inconsistent[i])],
                                   Len(inconsistent))

(***************************************************************************)
(* Properties of the Evaluator (SpecEval)                                  *)
(***************************************************************************)
EvalDone == pc = "check" /\ log[1].eval = "ok"
EvalTransactionsIn == log[1].eval_in.v
EvalCategoriesIn == files[cleaned_cat_path(1)].v
EvalUnmatched == files[uncategorized_path(1)].v

\* the keywords of the KeywordIndex: trimmed and lowercased
IndexKeywordAt(data, p) == Lower(KeywordAt(data, p))
IndexKeywords(data) == {IndexKeywordAt(data, p) : p \in Places(data)}
\* the transaction text: "sender_receiver booking_text purpose", lowercased
SpecText(tx) ==
    Lower(tx.sender_receiver \o <<" ">> \o tx.booking_text \o <<" ">> \o tx.purpose)
NoKeywordIn(data, tx) ==
    \A kw \in IndexKeywords(data) : kw = <<>> \/ ~IsSubstring(kw, SpecText(tx))

\* C16: after the Evaluator has run, the unmatched list is the input list
\* restricted, in input order, to the transactions in whose text no non-empty
\* keyword of the index occurs, and the matched count it reports is the
\* number of transactions minus the number of unmatched ones.
C16_Matching ==
    EvalDone =>
        /\ EvalUnmatched =
                SelectSeq(EvalTransactionsIn,
                          LAMBDA tx : NoKeywordIn(EvalCategoriesIn, tx))
        /\ log[1].summary.matched = Len(EvalTransactionsIn) - Len(EvalUnmatched)
        /\ log[1].summary.unmatched = Len(EvalUnmatched)

\* an upper-case keyword matched a transaction, a blank keyword matched none
C16_Witness ==
    /\ EvalDone
    /\ <<>> \in IndexKeywords(EvalCategoriesIn)
    /\ \E q \in Places(EvalCategoriesIn) : KeywordAt(EvalCategoriesIn, q) = <<"A">>
    /\ EvalTransactionsIn = <<Transaction(2), Transaction(1)>>
    /\ EvalUnmatched = <<Transaction(2)>>
    /\ log[1].summary.matched = 1

\* C17: the coverage the Evaluator reports is 0 for an empty transaction
\* list, whose unmatched list is empty too, and no quotient has divisor 0;
\* for a non-empty list it is 100 * (|transactions| - |unmatched|) /
\* |transactions|, lies between 0 and 100, and is 100 exactly when the
\* unmatched list is empty.
C17_Coverage ==
    EvalDone =>
        LET n == Len(EvalTransactionsIn)
            u == Len(EvalUnmatched)
            coverage == log[1].summary.coverage
        IN  /\ coverage.den > 0
            /\ n = 0 => coverage.num = 0 /\ u = 0
            /\ n > 0 =>
                /\ coverage.num * n = 100 * (n - u) * coverage.den
                /\ 0 <= coverage.num /\ coverage.num <= 100 * coverage.den
                /\ (coverage.num = 100 * coverage.den) <=> (u = 0)

\* the Evaluator has run on an empty transaction list with keywords at hand
C17_Witness ==
    /\ EvalDone
    /\ EvalTransactionsIn = <<>>
    /\ EvalCategoriesIn # <<>>
    /\ log[1].summary.coverage.num = 0
    /\ log[1].summary.total = 0

\* the keyword index with its items in the order given by the permutation order
Reordered(ktc, order) == [i \in 1..Len(ktc) |-> ktc[order[i]]]
IterationOrders(ktc) ==
    {order \in [1..Len(ktc) -> 1..Len(ktc)] :
        \A i, j \in 1..Len(ktc) : order[i] = order[j] => i = j}
EvalIndex == build_keyword_mappings(EvalCategoriesIn).keyword_to_category

\* C18: the unmatched list written by an evaluation is the list, records
\* and order, that an evaluation of the same categorisation and the same
\* transaction list yields under every iteration order of the keyword
\* index; so any two evaluations of the same inputs agree on it.
C18_Deterministic ==
    [][pc = "eval" =>
        \A order \in IterationOrders(EvalIndex) :
            files'[uncategorized_path(1)].v =
                match_transactions(files[TransactionsFile].v,
                                   Reordered(EvalIndex, order)).unmatched]_vars

\* the index holds two keywords of which only the second is in the text of
\* the first transaction, and the second transaction is unmatched
C18_Witness ==
    /\ EvalDone
    /\ Len(EvalIndex) = 2
    /\ Len(EvalTransactionsIn) = 2
    /\ ~Hits(EvalIndex[1].key, TxText(EvalTransactionsIn[1]))
    /\ Hits(EvalIndex[2].key, TxText(EvalTransactionsIn[1]))
    /\ EvalUnmatched = <<EvalTransactionsIn[2]>>

\* the places of the categories file whose keyword, trimmed and lowercased,
\* is non-empty and occurs in the text of tx
HittingPlaces(data, tx) ==
    {p \in Places(data) :
        /\ IndexKeywordAt(data, p) # <<>>
        /\ IsSubstring(IndexKeywordAt(data, p), SpecText(tx))}
\* The index is filled in file order, so the first keyword in insertion order
\* that occurs in the text is the keyword at the earliest such place.
FirstKeyword(data, tx) ==
    IndexKeywordAt(data, CHOOSE p \in HittingPlaces(data, tx) :
                            \A q \in HittingPlaces(data, tx) : p = q \/ Earlier(p, q))
\* the category set the index holds for kw
CategorySet(data, kw) ==
    {Lower(CategoryAt(data, p)) : p \in {q \in Places(data) : IndexKeywordAt(data, q) = kw}}
MatchedTransactions ==
    SelectSeq(EvalTransactionsIn, LAMBDA tx : HittingPlaces(EvalCategoriesIn, tx) # {})

\* C20: after the Evaluator has run, matched_categories holds, for each
\* matched transaction in input order, exactly the category set of the first
\* keyword in insertion order of the index that occurs in its text, whatever
\* later keywords occur in it too.
C20_FirstHitWins ==
    EvalDone =>
        /\ Len(log[1].matched_categories) = Len(MatchedTransactions)
        /\ \A i \in 1..Len(MatchedTransactions) :
                log[1].matched_categories[i] =
                    CategorySet(EvalCategoriesIn,
                                FirstKeyword(EvalCategoriesIn, MatchedTransactions[i]))

\* two keywords with different category sets occur in the text of the one
\* transaction; only the first one's categories were recorded
C20_Witness ==
    /\ EvalDone
    /\ Len(EvalTransactionsIn) = 1
    /\ \E p, q \in HittingPlaces(EvalCategoriesIn, EvalTransactionsIn[1]) :
        /\ Earlier(p, q)
        /\ CategorySet(EvalCategoriesIn, IndexKeywordAt(EvalCategoriesIn, p))
            # CategorySet(EvalCategoriesIn, IndexKeywordAt(EvalCategoriesIn, q))
        /\ log[1].matched_categories =
            <<CategorySet(EvalCategoriesIn, IndexKeywordAt(EvalCategoriesIn, p))>>

(***************************************************************************)
(* Sequencing of the stages (Spec)                                         *)
(***************************************************************************)
\* a stage of round k has completed when its subprocess has exited, with
\* whatever outcome; it has started when its record says so or it is running
Completed(k, stage) == log[k][stage] # "pending"
\* the one stage that takes more than one step is GenCat with its attempts
Active(k, stage) == stage = "gencat" /\ k = Len(log) /\ pc = "attempt"
Started(k, stage) == Completed(k, stage) \/ Active(k, stage)
Stages == {"gencat", "clean", "eval"}

\* C19: in every round the Cleaner has started only if the Classifier has
\* completed and the Evaluator only if the Cleaner has completed; round k+1
\* exists, its Classifier started, only if round k's Evaluator has completed;
\* a stage about to start finds its predecessor completed; and while a stage
\* is active no other stage of any round is.
C19_Sequential ==
    /\ \A k \in Rounds :
        /\ log[k].round = k
        /\ Started(k, "clean") => Completed(k, "gencat")
        /\ Started(k, "eval") => Completed(k, "clean")
        /\ k > 1 => Completed(k - 1, "eval")
        /\ \A stage \in Stages : Active(k, stage) =>
                \A j \in Rounds : \A other \in Stages :
                    (j # k \/ other # stage) =>
                        /\ ~Active(j, other)
                        /\ Started(j, other) => Completed(j, other)
                        /\ Completed(j, other) => j < k
    /\ pc = "clean" => Completed(Len(log), "gencat") /\ ~Started(Len(log), "clean")
    /\ pc = "eval" => Completed(Len(log), "clean") /\ ~Started(Len(log), "eval")
    /\ pc = "check" => Completed(Len(log), "eval")
    /\ pc = "start" => \A k \in Rounds : \A stage \in Stages : Completed(k, stage)

\* round 2's Evaluator is about to start: the three stages of round 1 and
\* the first two of round 2 have completed
C19_Witness ==
    /\ pc = "eval"
    /\ Len(log) = 2
    /\ \A stage \in Stages : Completed(1, stage)
    /\ log[2].gencat = "ok" /\ log[2].clean = "ok" /\ log[2].eval = "pending"

(***************************************************************************)
(* The Evaluator's reports (SpecEval)                                      *)
(***************************************************************************)
EvalInconsistent == files[inconsistent_path(1)].v
\* the categories, trimmed and lowercased, of every non-empty keyword of the
\* categories file that occurs in text
UnionOfCategories(data, text) ==
    {Lower(CategoryAt(data, p)) :
        p \in {q \in Places(data) :
                /\ IndexKeywordAt(data, q) # <<>>
                /\ IsSubstring(IndexKeywordAt(data, q), text)}}
RangeOf(seq) == {seq[i] : i \in 1..Len(seq)}
ReportedTexts == {SpecText(EvalInconsistent[i].transaction) : i \in 1..Len(EvalInconsistent)}

\* C21: after the Evaluator has run, the texts of the inconsistent report are
\* the texts of the input transactions for which the categories of all
\* keywords occurring in the text number more than one; no text has two
\* entries; and an entry lists exactly those categories, each once.
C21_Inconsistent ==
    EvalDone =>
        /\ \A i \in 1..Len(EvalInconsistent) : "transaction" \in DOMAIN EvalInconsistent[i]
        /\ ReportedTexts =
            {text \in {SpecText(tx) : tx \in RangeOf(EvalTransactionsIn)} :
                Cardinality(UnionOfCategories(EvalCategoriesIn, text)) > 1}
        /\ Cardinality(ReportedTexts) = Len(EvalInconsistent)
        /\ \A i \in 1..Len(EvalInconsistent) :
            LET union == UnionOfCategories(EvalCategoriesIn,
                                           SpecText(EvalInconsistent[i].transaction))
            IN  /\ RangeOf(EvalInconsistent[i].categories) = union
                /\ Len(EvalInconsistent[i].categories) = Cardinality(union)

\* the same transaction twice, matched by its first keyword to one category
\* and reported once with the two categories of the full scan
C21_Witness ==
    /\ EvalDone
    /\ Len(EvalTransactionsIn) = 2
    /\ EvalTransactionsIn[1] = EvalTransactionsIn[2]
    /\ EvalUnmatched = <<>>
    /\ Cardinality(log[1].matched_categories[1]) = 1
    /\ Len(EvalInconsistent) = 1
    /\ Len(EvalInconsistent[1].categories) = 2

\* the required taxonomy
RequiredTaxonomy ==
    {<<"h","o","u","s","e","h","o","l","d">>,
     <<"e","l","e","c","t","r","i","c","i","t","y">>,
     <<"m","a","i","n","t","e","n","a","n","c","e">>,
     <<"r","e","n","t">>,
     <<"s","a","l","a","r","y">>,
     <<"b","a","n","k"," ","l","o","a","n">>,
     <<"t","a","x","e","s"," ","a","n","d"," ","f","e","e","s">>,
     <<"i","n","s","u","r","a","n","c","e">>,
     <<"l","e","i","s","u","r","e">>,
     <<"c","r","e","d","i","t","c","a","r","d">>,
     <<"m","e","d","i","c","i","n","e">>,
     <<"s","p","o","r","t">>,
     <<"c","l","o","t","h","i","n","g">>,
     <<"a","t","m">>,
     <<"o","t","h","e","r">>,
     <<"t","r","a","n","s","p","o","r","t","a","t","i","o","n">>}
\* the category names of a categorisation, trimmed and lowercased
PresentCategories(data) == {Lower(Strip(data[i].Category)) : i \in 1..Len(data)}

\* C22: after the Evaluator has run, its missing set is the required
\* taxonomy of 16 names without the trimmed, lowercased category names of the
\* categorisation (hence empty when all 16 are present).
C22_Missing ==
    EvalDone =>
        log[1].missing = RequiredTaxonomy \ PresentCategories(EvalCategoriesIn)

(***************************************************************************)
(* The fallback category and the identity of keywords (SpecClean)          *)
(***************************************************************************)
\* "Other" in any letter case
IsFallback(cat) == Lower(cat) = Lower(Other)
FirstPlace(S) == CHOOSE p \in S : \A q \in S \ {p} : Earlier(p, q)
\* the category the rule gives kw when the fallback is recognised in any
\* case: that of its first assignment outside the fallback, and that of its
\* first assignment when there is none
FirstNonFallback(kw) ==
    LET outside == {p \in PlacesOf(RawData, kw) : ~IsFallback(CategoryAt(RawData, p))}
    IN  CategoryAt(RawData,
            FirstPlace(IF outside = {} THEN PlacesOf(RawData, kw) ELSE outside))

\* C23: every keyword ends up under the first category other than "Other",
\* "other" or "OTHER" under which it arrives, and stays under the fallback
\* category of its first assignment when it arrives under no other.
C23_FallbackAnyCase ==
    HasCleaned =>
        \A kw \in RawKeywords :
            {CategoryAt(CleanedData, p) : p \in PlacesOf(CleanedData, kw)}
                = {FirstNonFallback(kw)}

(***************************************************************************)
(* Keywords across the Cleaner and the Evaluator (SpecStages)              *)
(***************************************************************************)
\* the keywords of a categorisation, trimmed, that differ from kw in letter
\* case at most
SameKeyword(data, kw) ==
    {p \in Places(data) : Lower(KeywordAt(data, p)) = Lower(kw)}

\* C24: the cleaned categorisation holds at most one of the keywords that
\* differ in letter case only, and the duplicates report of the Evaluator
\* run on it is empty.
C24_KeywordIdentity ==
    /\ (pc \in {"eval", "check"} /\ log[1].clean = "ok") =>
            \A p \in Places(CleanedData) :
                SameKeyword(CleanedData, KeywordAt(CleanedData, p)) = {p}
    /\ EvalDone => log[1].duplicates = <<>>

\* the keyword objects of the raw categorisation, and the trimmed keywords
\* of those that have the keyword field
RawKeywordObjs ==
    UNION {RangeOf(RawData[i].Keywords) : i \in 1..Len(RawData)}
RawKeywordsGiven ==
    {Strip(kw_obj.keyword) : kw_obj \in {o \in RawKeywordObjs : "keyword" \in DOMAIN o}}

\* C28: neither stage fails; the keywords of the cleaned categorisation are
\* those of the keyword objects that have the keyword field, the keys of the
\* KeywordIndex are these in lower case, and the unmatched transactions are
\* those in whose text none of these occurs.
C28_SkipsKeywordless ==
    /\ pc \in {"eval", "check"} =>
        /\ log[1].clean = "ok"
        /\ {KeywordAt(CleanedData, p) : p \in Places(CleanedData)} = RawKeywordsGiven
    /\ pc = "check" =>
        /\ log[1].eval = "ok"
        /\ {log[1].index.keyword_to_category[i].key :
                i \in 1..Len(log[1].index.keyword_to_category)}
            = {Lower(kw) : kw \in RawKeywordsGiven}
        /\ EvalUnmatched =
            SelectSeq(EvalTransactionsIn,
                      LAMBDA tx : \A kw \in RawKeywordsGiven :
                                    ~IsSubstring(Lower(kw), SpecText(tx)))

(***************************************************************************)
(* The KeywordIndex built by the Evaluator (SpecEval)                      *)
(***************************************************************************)
IndexKtc == log[1].index.keyword_to_category
IndexCtk == log[1].index.category_to_keywords

\* C29: after the Evaluator has built its index, every keyword of
\* keyword_to_category has a category, each of its categories holds it in
\* category_to_keywords, and every keyword held by a category in
\* category_to_keywords has that category in keyword_to_category.
C29_IndexInvariant ==
    EvalDone =>
        /\ \A i \in 1..Len(IndexKtc) :
            /\ IndexKtc[i].val # {}
            /\ \A c \in IndexKtc[i].val :
                \E j \in 1..Len(IndexCtk) :
                    IndexCtk[j].key = c /\ IndexKtc[i].key \in IndexCtk[j].val
        /\ \A j \in 1..Len(IndexCtk) :
            \A kw \in IndexCtk[j].val :
                \E i \in 1..Len(IndexKtc) :
                    IndexKtc[i].key = kw /\ IndexCtk[j].key \in IndexKtc[i].val
        /\ \A i, j \in 1..Len(IndexKtc) : IndexKtc[i].key = IndexKtc[j].key => i = j
        /\ \A i, j \in 1..Len(IndexCtk) : IndexCtk[i].key = IndexCtk[j].key => i = j

\* one keyword under two categories, each of which holds it
C29_Witness ==
    /\ EvalDone
    /\ Len(IndexKtc) = 1
    /\ Cardinality(IndexKtc[1].val) = 2
    /\ Len(IndexCtk) = 2
    /\ IndexCtk[1].val = {IndexKtc[1].key}
    /\ IndexCtk[2].val = {IndexKtc[1].key}

(***************************************************************************)
(* Properties of the Classifier Adapter (Spec)                             *)
(***************************************************************************)
GenCatEnded == pc = "clean"
ThisRound == log[Len(log)]
\* text is a list of {Category, Keywords: [{keyword, reasoning, confidence}]}
MatchesSchema(text) ==
    /\ text.kind = "list"
    /\ \A i \in 1..Len(text.v) :
        /\ DOMAIN text.v[i] = {"Category", "Keywords"}
        /\ \A j \in 1..Len(text.v[i].Keywords) :
            DOMAIN text.v[i].Keywords[j] = {"keyword", "reasoning", "confidence"}

\* C25: when the Classifier Adapter has ended with success, the response it
\* accepted and stored parses and matches the schema; a response of another
\* shape is never the accepted one.
C25_SchemaChecked ==
    (GenCatEnded /\ ThisRound.gencat = "ok") =>
        /\ files[cat_path(iteration)] = response
        /\ MatchesSchema(response)

\* C26: when the Classifier Adapter has ended, with success or with
\* ClassificationFailed, the raw categorisation file of the round holds the
\* last response and log_prompt.json holds the prompt rendered for the batch
\* of this invocation.
C26_PersistsBoth ==
    (GenCatEnded /\ ThisRound.gencat \in {"ok", "ClassificationFailed"}) =>
        /\ files[cat_path(iteration)] = response
        /\ files[LogPromptFile] = [kind |-> "prompt", text |-> "", v |-> batch]

\* C27: a call that raises ends the adapter: the step writes no file and
\* leaves the attempt loop, whatever the number of attempts left; the raw
\* categorisation file of a round that ended so is the one found when main()
\* started; and the loop goes round again only on a response that does not
\* parse, which writes no file either.
C27_TransportFatal ==
    /\ [](\A k \in Rounds : log[k].gencat = "error" =>
            /\ k = Len(log) => pc # "attempt"
            /\ \E before \in InitialFiles : files[cat_path(k)] = before[cat_path(k)])
    /\ [][pc = "attempt" =>
            /\ ThisRound'.gencat = "error" => (files' = files /\ pc' = "clean")
            /\ pc' = "attempt" =>
                /\ ~is_valid_json(response')
                /\ attempt' = attempt + 1
                /\ files' = files]_vars

\* the second call of round 1 raised after a malformed first response: the
\* adapter has ended after two attempts and there is no raw categorisation
C27_Witness ==
    /\ GenCatEnded
    /\ iteration = 1
    /\ ThisRound.gencat = "error"
    /\ attempt = 2
    /\ response = NoResponse
    /\ files[TransactionsFile].kind = "list"
    /\ files[cat_path(1)].kind = "absent"

(***************************************************************************)
(* What a run leaves alone (Spec)                                          *)
(***************************************************************************)
\* the rounds whose three stages have ended
CompletedRounds == {k \in Rounds : log[k].eval # "pending"}
Changed(f) == files'[f] # files[f]

\* C30: no step of a run changes inputs/transactions.json; no step changes
\* one of the four files of a round whose stages have ended; and the merges
\* change only merged files, those without a round index in outputs/.
C30_Frame ==
    [][/\ ~Changed(TransactionsFile)
       /\ \A k \in CompletedRounds : \A stem \in Stems : ~Changed(RoundFile(stem, k))
       /\ pc = "merge" =>
            \A f \in FileNames : Changed(f) => f \in {MergedFile(stem) : stem \in Stems}]_vars

\* main() has returned after two rounds and the merges: the transactions
\* file is the input of round 1 and the unmatched file of round 1 is as the
\* Evaluator of round 1 wrote it
C30_Witness ==
    /\ pc = "done"
    /\ mergeRuns = 1
    /\ Len(log) = 2
    /\ log[1].eval = "ok" /\ log[2].eval = "ok"
    /\ files[TransactionsFile] = log[1].classifier_in
    /\ files[RoundFile("uncategorized_transactions", 1)] = log[1].unmatched_out
    /\ files[RoundFile("uncategorized_transactions", 2)] = log[2].unmatched_out
    /\ files[MergedFile("uncategorized_transactions")].kind = "list"

(***************************************************************************)
(* The merges and the files of an earlier run                              *)
(***************************************************************************)
\* the per-round files that a stage of this run wrote
WrittenInRun(f) ==
    /\ f[3] \in Rounds
    /\ CASE f[2] = "AI_Categorisation" -> log[f[3]].gencat # "pending"
         [] f[2] = "AI_Categorisation_cleaned" -> log[f[3]].clean = "ok"
         [] OTHER -> log[f[3]].eval = "ok"

\* outputs/ with the per-round files of this run only
RunOnly(fs) ==
    [f \in DOMAIN fs |->
        IF f[1] = "outputs" /\ f[2] \in Stems /\ f[3] > 0 /\ ~WrittenInRun(f)
        THEN Absent ELSE fs[f]]

\* C31: the merged categorisation, the merged unmatched list and the merged
\* inconsistent list are what the merges make of the per-round files written
\* by the rounds of this run; a per-round file that an earlier run left in
\* outputs/ adds nothing to them.
C31_MergedFromThisRun ==
    HasMerged =>
        \A stem \in {"AI_Categorisation_cleaned", "uncategorized_transactions",
                     "inconsistent_categorizations"} :
            files[MergedFile(stem)] = MergeAll(RunOnly(files))[MergedFile(stem)]

(***************************************************************************)
(* Convergence and failed stages                                           *)
(***************************************************************************)
\* C32: the orchestrator is in Converged only when the Evaluator of the last
\* round ran to its end and wrote an empty unmatched list; a round in which
\* the Classifier, the Cleaner or the Evaluator failed does not end the run
\* in Converged.
C32_ConvergedOnlyAfterEvaluation ==
    status = "Converged" =>
        /\ ThisRound.gencat = "ok" /\ ThisRound.clean = "ok" /\ ThisRound.eval = "ok"
        /\ ThisRound.unmatched_out = JsonList(<<>>)

(***************************************************************************)
(* The unmatched lists over the rounds                                     *)
(***************************************************************************)
StagesSucceeded(k) ==
    log[k].gencat = "ok" /\ log[k].clean = "ok" /\ log[k].eval = "ok"

\* s is t with some of its elements left out, the order kept
RECURSIVE IsSubsequence(_, _)
IsSubsequence(s, t) ==
    IF s = <<>> THEN TRUE
    ELSE IF t = <<>> THEN FALSE
    ELSE IF Head(s) = Head(t) THEN IsSubsequence(Tail(s), Tail(t))
    ELSE IsSubsequence(s, Tail(t))

\* C33: while the stages of a run succeed, the unmatched list of round k is
\* a sub-sequence of the input of round k, the count of round k is at most
\* that of round k-1, and a run that stops in Stalled after round k has the
\* same unmatched list in rounds k-1 and k.
C33_UnmatchedShrinks ==
    \A k \in Rounds :
        (\A j \in 1..k : StagesSucceeded(j)) =>
            /\ IsSubsequence(log[k].unmatched_out.v, log[k].classifier_in.v)
            /\ (k > 1 /\ Counted(k)) => log[k].count <= log[k - 1].count
            /\ (k > 1 /\ k = Len(log) /\ status = "Stalled") =>
                  log[k].unmatched_out = log[k - 1].unmatched_out

\* three rounds whose stages succeeded: round 1 matched some transactions and
\* left some, round 2 matched fewer, round 3 none, and the run stopped in Stalled
C33_Witness ==
    /\ pc = "done" /\ status = "Stalled" /\ Len(log) = 3
    /\ \A k \in Rounds : StagesSucceeded(k)
    /\ Len(log[1].unmatched_out.v) < Len(log[1].classifier_in.v)
    /\ Len(log[2].unmatched_out.v) < Len(log[1].unmatched_out.v)
    /\ log[3].unmatched_out = log[2].unmatched_out
    /\ Len(log[3].unmatched_out.v) > 0

(***************************************************************************)
(* The merged unmatched list of a run                                      *)
(***************************************************************************)
\* outputs/ holds no unmatched file but those the Evaluator wrote in this
\* run, as in every run that starts on an empty outputs/
OnlyUnmatchedOfThisRun ==
    \A k \in 1..MAX_ITERATIONS :
        files[uncategorized_path(k)] # Absent => (k \in Rounds /\ log[k].eval = "ok")

\* the unmatched list of round 1, empty when the round wrote none
UnmatchedOfRoundOne ==
    IF files[uncategorized_path(1)].kind = "list"
    THEN files[uncategorized_path(1)].v ELSE <<>>

\* C34: in a run that starts on an empty outputs/ the merged unmatched list
\* is the unmatched list of round 1 without repeated records; the lists of
\* later rounds add no record and remove none.
C34_MergedUnmatchedIsRoundOne ==
    (HasMerged /\ OnlyUnmatchedOfThisRun) =>
        MergedUnmatched =
            FirstOccurrences(UnmatchedOfRoundOne, UnmatchedOfRoundOne,
                             Len(UnmatchedOfRoundOne))

\* a run from an empty outputs/ whose round 2 matched a transaction that
\* round 1 had left: the merged list still holds it
C34_Witness ==
    /\ HasMerged /\ OnlyUnmatchedOfThisRun
    /\ Len(log) >= 2 /\ log[2].eval = "ok"
    /\ \E i \in 1..Len(UnmatchedOfRoundOne) :
          /\ ~\E j \in 1..Len(log[2].unmatched_out.v) :
                log[2].unmatched_out.v[j] = UnmatchedOfRoundOne[i]
          /\ \E j \in 1..Len(MergedUnmatched) : MergedUnmatched[j] = UnmatchedOfRoundOne[i]

(***************************************************************************)
(* Unmatched transactions and inconsistent reports (SpecRounds)            *)
(***************************************************************************)
\* the rounds whose Evaluator ran to its end
EvaluatedRounds == {k \in Rounds : log[k].eval = "ok"}

\* the transaction texts of the inconsistent report of round k
ReportTextsOf(k) ==
    LET report == files[inconsistent_path(k)].v
    IN  {IF "transaction" \in DOMAIN report[i]
         THEN SpecText(report[i].transaction)
         ELSE report[i].transaction_text : i \in 1..Len(report)}

\* the texts of the transactions that round k left unmatched
UnmatchedTextsOf(k) ==
    {SpecText(log[k].unmatched_out.v[i]) : i \in 1..Len(log[k].unmatched_out.v)}

\* C35: no transaction that a round leaves unmatched has its text in the
\* inconsistent report of that round, and the inconsistent reports of two
\* rounds of a run have no transaction text in common.
C35_InconsistentAreMatched ==
    /\ \A k \in EvaluatedRounds : UnmatchedTextsOf(k) \cap ReportTextsOf(k) = {}
    /\ \A j, k \in EvaluatedRounds : j # k => ReportTextsOf(j) \cap ReportTextsOf(k) = {}

\* two rounds that each reported a transaction as inconsistent, the first
\* leaving transactions unmatched
C35_Witness ==
    /\ {1, 2} \subseteq EvaluatedRounds
    /\ ReportTextsOf(1) # {} /\ ReportTextsOf(2) # {}
    /\ UnmatchedTextsOf(1) # {}

(***************************************************************************)
(* The keywords the Cleaner is given and the keywords it writes            *)
(***************************************************************************)
\* the places of the raw categorisation whose keyword object has the keyword
\* field
RawPlacesGiven ==
    {p \in Places(RawData) : "keyword" \in DOMAIN RawData[p[1]].Keywords[p[2]]}

\* C36: the trimmed keywords of the cleaned categorisation are the trimmed
\* keywords of the raw one, none lost and none added; every keyword is under
\* a category under which the raw categorisation lists it; and no category
\* of the cleaned categorisation is without keywords.
C36_KeywordsPreserved ==
    (pc \in {"eval", "check"} /\ log[1].clean = "ok") =>
        /\ {KeywordAt(CleanedData, p) : p \in Places(CleanedData)}
              = {KeywordAt(RawData, q) : q \in RawPlacesGiven}
        /\ \A p \in Places(CleanedData) :
              \E q \in RawPlacesGiven :
                  /\ KeywordAt(RawData, q) = KeywordAt(CleanedData, p)
                  /\ CategoryAt(RawData, q) = CategoryAt(CleanedData, p)
        /\ \A i \in 1..Len(CleanedData) : CleanedData[i].Keywords # <<>>

(***************************************************************************)
(* The Cleaner run on a cleaned categorisation                             *)
(***************************************************************************)
\* C37: the Cleaner given the categorisation it has written returns it
\* unchanged, whatever the raw categorisation was.
C37_CleanIdempotent ==
    HasCleaned => clean_ai_categorisation(CleanedData) = CleanedData

\* a raw categorisation that the Cleaner changed: a keyword arrived twice,
\* with and without a blank, and two categories are left
C37_Witness ==
    /\ HasCleaned
    /\ RawData # CleanedData
    /\ \E kw \in RawKeywords :
          /\ Cardinality(PlacesOf(RawData, kw)) >= 2
          /\ \E p, q \in PlacesOf(RawData, kw) :
                RawData[p[1]].Keywords[p[2]].keyword # RawData[q[1]].Keywords[q[2]].keyword
    /\ Len(CleanedData) = 2
    /\ clean_ai_categorisation(CleanedData) = CleanedData

(***************************************************************************)
(* What the two merges of the categorisation read                          *)
(***************************************************************************)
\* outputs/ with the per-round files of stem and no other .json file
OnlyRoundsOf(fs, stem) ==
    [f \in DOMAIN fs |->
        IF f[1] = "outputs" /\ f[2] \in Stems /\ ~(f[2] = stem /\ f[3] > 0)
        THEN Absent ELSE fs[f]]

\* C38: the merged raw categorisation is what the merge makes of the per-round
\* raw files alone, and the merged cleaned categorisation what it makes of the
\* per-round cleaned files alone: no file of the other kind and no merged file
\* adds to either.
C38_MergesReadOwnKind ==
    HasMerged =>
        \A stem \in {"AI_Categorisation", "AI_Categorisation_cleaned"} :
            files[MergedFile(stem)] = MergeAll(OnlyRoundsOf(files, stem))[MergedFile(stem)]

(***************************************************************************)
(* scripts/refine_other_loop.py: refine(transactions, batch_size)          *)
(***************************************************************************)
\* the transactions refine() is called on: a description and, but for the
\* last, the category given so far
RefineTransactions ==
    {[description |-> "d1", category |-> Other],
     [description |-> "d2", category |-> Other],
     [description |-> "d3", category |-> Other],
     [description |-> "d4", category |-> Rent],
     [description |-> "d5"]}
BatchSizes == {2, 10}

\* the items of a list that process_batch returns
RefineItems ==
    {[original_description |-> "d", new_category |-> Rent, confidence |-> 9,
      reasoning |-> "r1"],
     [original_description |-> "d"]}

\* confidence counts in tenths: 0.5
DefaultConfidence == 5

\* other_to_fix[i:i+batch_size]
RefineBatch(loc) ==
    SubSeq(loc.other_to_fix, loc.i + 1,
           IF loc.i + loc.batch_size < Len(loc.other_to_fix)
           THEN loc.i + loc.batch_size ELSE Len(loc.other_to_fix))

\* the lists json.loads(response.text) may give for a batch: as many items as
\* the batch has, fewer, or one more
RefineResults(transactions) ==
    UNION {[1..n -> RefineItems] : n \in 0..(Len(transactions) + 1)}

\* the three assignments to original
Updated(original, updated) ==
    [f \in DOMAIN original \cup {"category", "confidence", "reasoning"} |->
        CASE f = "category" -> Get(updated, "new_category", Other)
          [] f = "confidence" -> Get(updated, "confidence", DefaultConfidence)
          [] f = "reasoning" -> Get(updated, "reasoning", "No reasoning provided.")
          [] OTHER -> original[f]]

\* what the loop over zip(batch, results) appends to refined: zip stops at
\* the end of the shorter list
ZipUpdated(transactions, results) ==
    [k \in 1..(IF Len(transactions) < Len(results)
               THEN Len(transactions) ELSE Len(results)) |->
        Updated(transactions[k], results[k])]

\* refine() is called: refined, other_to_fix and rest before the loop
InitRefine ==
    /\ pc = "refine"
    /\ \E n \in 0..MaxRefineTx :
       \E given \in [1..n -> RefineTransactions] :
       \E size \in BatchSizes :
        /\ \A j, k \in 1..n : given[j] = given[k] => j = k
        /\ refineLocals =
              [transactions |-> given,
               batch_size |-> size,
               refined |-> <<>>,
               other_to_fix |-> SelectSeq(given, LAMBDA t : Get(t, "category", <<>>) = Other),
               rest |-> SelectSeq(given, LAMBDA t : Get(t, "category", <<>>) # Other),
               i |-> 0,
               results |-> NoResponse,
               returned |-> <<>>]
    /\ iteration = 1
    /\ previous_count = NoneCount
    /\ gen_cat_input = TransactionsFile
    /\ files = EmptyDirs
    /\ status = "Running"
    /\ attempt = 0
    /\ batch = <<>>
    /\ response = NoResponse
    /\ log = <<>>
    /\ mergeRuns = 0

\* process_batch returns None (generate_content or json.loads raised): the
\* batch is carried over as it is
BatchFailed ==
    /\ pc = "refine"
    /\ refineLocals.i < Len(refineLocals.other_to_fix)
    /\ refineLocals' = [refineLocals EXCEPT
                            !.results = NoResponse,
                            !.refined = @ \o RefineBatch(refineLocals),
                            !.i = @ + refineLocals.batch_size]
    /\ UNCHANGED <<pc, iteration, previous_count, gen_cat_input, files, status, attempt,
                   batch, response, log, mergeRuns>>

\* process_batch returns a list of objects
BatchAnswered ==
    /\ pc = "refine"
    /\ refineLocals.i < Len(refineLocals.other_to_fix)
    /\ \E results \in RefineResults(RefineBatch(refineLocals)) :
        refineLocals' = [refineLocals EXCEPT
                            !.results = JsonList(results),
                            !.refined = @ \o ZipUpdated(RefineBatch(refineLocals), results),
                            !.i = @ + refineLocals.batch_size]
    /\ UNCHANGED <<pc, iteration, previous_count, gen_cat_input, files, status, attempt,
                   batch, response, log, mergeRuns>>

\* process_batch returns a JSON object: zip pairs the first transaction with
\* a key of it, a str, and updated.get raises AttributeError out of refine()
BatchRaises ==
    /\ pc = "refine"
    /\ refineLocals.i < Len(refineLocals.other_to_fix)
    /\ refineLocals' = [refineLocals EXCEPT !.results = JsonObject("error")]
    /\ pc' = "raised"
    /\ UNCHANGED <<iteration, previous_count, gen_cat_input, files, status, attempt,
                   batch, response, log, mergeRuns>>

\* the range is exhausted: return refined + rest
RefineReturn ==
    /\ pc = "refine"
    /\ refineLocals.i >= Len(refineLocals.other_to_fix)
    /\ refineLocals' = [refineLocals EXCEPT
                            !.returned = refineLocals.refined \o refineLocals.rest]
    /\ pc' = "returned"
    /\ UNCHANGED <<iteration, previous_count, gen_cat_input, files, status, attempt,
                   batch, response, log, mergeRuns>>

NextRefine ==
    \/ BatchFailed
    \/ BatchAnswered
    \/ BatchRaises
    \/ RefineReturn

SpecRefine == InitRefine /\ [][NextRefine]_vars

(***************************************************************************)
(* Properties of refine() (SpecRefine)                                     *)
(***************************************************************************)
\* C39: the list refine() returns is as long as the list it was given and
\* holds every transaction given once, whatever each batch's call returned;
\* and a batch whose call failed is in refined as it was, still under
\* "Other".
C39_RefineKeepsAll ==
    /\ [](pc = "returned" =>
            /\ Len(refineLocals.returned) = Len(refineLocals.transactions)
            /\ \A j \in 1..Len(refineLocals.transactions) :
                  Cardinality({k \in 1..Len(refineLocals.returned) :
                                  refineLocals.returned[k].description
                                    = refineLocals.transactions[j].description}) = 1)
    /\ [][(pc = "refine" /\ refineLocals'.i > refineLocals.i
              /\ refineLocals'.results = NoResponse) =>
            refineLocals'.refined = refineLocals.refined \o RefineBatch(refineLocals)]_vars

============================================================================
